---- MODULE Spec2Model ----
(***************************************************************************)
(* Model of the law_search ingestion pipeline (DataProcessor and its       *)
(* collaborators) and of the hybrid result fusion of DatabaseManager.      *)
(*                                                                         *)
(* Strings of the program are modelled as sequences of character classes,  *)
(* scores and weights as integers counted in tenths, combined scores as    *)
(* exact fractions [num, den].  Wall-clock fields (processing_time,        *)
(* generated_at, inserted_at) are left out: no modelled branch reads them. *)
(***************************************************************************)
EXTENDS Integers, Sequences, FiniteSets, TLC

\* ------------------------------------------------------------------ bounds
\* number of entries of EGovDataCollector.tax_law_ids the model keeps
NumTaxLaws == 2
\* longest article list of a source document
MaxArticles == 2
\* process_single_law calls made directly by the caller on one orchestrator
MaxCalls == 2
\* most indexes the documents collection has when it is validated
MaxIndexes == 2
\* most records the documents collection has when it is validated
MaxRecords == 1
\* longest content given to _clean_article_content on its own
MaxLen == 3
\* longest content, and largest max_length, given to split_long_article
MaxContent == 6
\* longest title of a parsed document, in tokens
MaxTitle == 2
\* most Article elements, and most Item elements outside them, of a document
MaxElements == 2
\* longest list given to validate_embeddings
MaxEmbeddings == 2
\* longest embedding vector of that list
MaxDimension == 2

\* ------------------------------------------------------- program constants
AllTaxLawIds ==
    << "M32HO089", "M40HO034", "M63HO108", "M25HO073", "M37HO028",
       "M37HO029", "M37HO030", "M37HO031", "M37HO032", "M37HO033" >>

tax_law_ids == SubSeq(AllTaxLawIds, 1, NumTaxLaws)

LawIds == {tax_law_ids[i] : i \in DOMAIN tax_law_ids}

\* law ids and explicit source files direct callers of process_single_law pass
\* (processor.py line 382 uses the first)
CallerLawIds == {AllTaxLawIds[1], AllTaxLawIds[2]}

\* xml_file_path = None (the convention lookup data_dir/<law_id>.xml is used)
NonePath == "None"

\* xml_file_path arguments of direct callers: None or the file of the first
\* law (the file stem stands for the path)
CallerPaths == {NonePath, AllTaxLawIds[1]}

\* article_number of the document summary pseudo-fragment ("SUMMARY")
SUMMARY == 0

\* absence of the 'error' key in an outcome
NoError == "none"

\* validate_processing wants more indexes than this (the primary one)
IndexFloor == 1

\* ----------------------------------------------------------- text cleaning
\* character classes: "w" an ASCII word character, "kana" a character of the
\* Japanese ranges, "maru" the full stop U+3002, "sp" an ASCII space, "tab"
\* another ASCII whitespace character, "fsp" the full-width space U+3000,
\* "paren" a character outside the allow-list.
Chars == {"w", "kana", "maru", "sp", "tab", "fsp", "paren"}

IsSpace(c) == c \in {"sp", "tab", "fsp"}

IsAllowed(c) == c \in {"w", "kana", "maru", "sp", "tab", "fsp"}

RECURSIVE CollapseWhitespace(_)
CollapseWhitespace(s) ==
    IF s = << >> THEN << >>
    ELSE IF IsSpace(Head(s))
         THEN LET rest == Tail(s)
              IN  IF rest # << >> /\ IsSpace(Head(rest))
                  THEN CollapseWhitespace(rest)
                  ELSE << "sp" >> \o CollapseWhitespace(rest)
         ELSE << Head(s) >> \o CollapseWhitespace(Tail(s))

RECURSIVE StripLeft(_)
StripLeft(s) ==
    IF s # << >> /\ IsSpace(Head(s)) THEN StripLeft(Tail(s)) ELSE s

RECURSIVE StripRight(_)
StripRight(s) ==
    IF s # << >> /\ IsSpace(s[Len(s)])
    THEN StripRight(SubSeq(s, 1, Len(s) - 1))
    ELSE s

Strip(s) == StripRight(StripLeft(s))

\* mutant: only the first character outside the allow-list is removed
RECURSIVE RemoveFirstDisallowed(_)
RemoveFirstDisallowed(s) ==
    IF s = << >> THEN << >>
    ELSE IF ~IsAllowed(Head(s)) THEN Tail(s)
    ELSE << Head(s) >> \o RemoveFirstDisallowed(Tail(s))

RemoveDisallowed(s) == SelectSeq(s, IsAllowed)

ReplaceFullWidthSpace(s) == [i \in DOMAIN s |-> IF s[i] = "fsp" THEN "sp" ELSE s[i]]

CleanArticleContent(content) ==
    IF content = << >> THEN << >>
    ELSE Strip(CollapseWhitespace(ReplaceFullWidthSpace(
             RemoveDisallowed(Strip(CollapseWhitespace(content))))))

\* ------------------------------------------------------------ data records
Article(lid, num, content, metadata) ==
    [law_id |-> lid, article_number |-> num, content |-> content,
     metadata |-> metadata]

\* metadata _parse_article_element gives an article (parser.py lines 249-252);
\* "time" stands for a datetime.now().isoformat() value
ParsedMetadata == [xml_element |-> "Article", parsed_at |-> "time"]

LawDocument(lid, articles) == [law_id |-> lid, articles |-> articles]

NoDocument == LawDocument("", << >>)

EmbeddingResult(lid, num, content) ==
    [law_id |-> lid, article_number |-> num, content |-> content]

DownloadResult(lid, success) ==
    [law_id |-> lid, success |-> success,
     file_path |-> IF success THEN lid ELSE NonePath]

NoResult ==
    [law_id |-> "", success |-> FALSE, error |-> NoError,
     articles_count |-> 0, embeddings_count |-> 0, saved_documents |-> 0]

\* contents an extracted fragment may carry in the pipeline runs: one that
\* survives cleaning and one that cleans to the empty string
SampleContents == { << "w" >>, << "paren" >> }

SourceBodies == UNION {[1..n -> SampleContents] : n \in 0..MaxArticles}

\* XMLParser.parse_law_xml on a well-formed file: the document identifier is
\* the file stem, the articles are numbered in document order
ParseLawXml(stem, body) ==
    LawDocument(stem,
        [i \in DOMAIN body |-> Article(stem, i, body[i], ParsedMetadata)])

\* len(content.split()): the number of maximal runs of non-space characters
WordCount(content) ==
    Cardinality({i \in DOMAIN content :
        ~IsSpace(content[i]) /\ (i = 1 \/ IsSpace(content[i - 1]))})

\* parser.py lines 470-474: metadata.update({...})
UpdatedMetadata(metadata, cleaned_content) ==
    [k \in DOMAIN metadata \cup {"content_length", "word_count", "processed_at"} |->
        IF k = "content_length" THEN Len(cleaned_content)
        ELSE IF k = "word_count" THEN WordCount(cleaned_content)
        ELSE IF k = "processed_at" THEN "time"
        ELSE metadata[k]]

\* mutant: a fragment whose content cleans to empty is passed on
ProcessArticleKeepEmpty(article) ==
    LET cleaned_content == CleanArticleContent(article.content)
    IN  << Article(article.law_id, article.article_number, cleaned_content,
                   UpdatedMetadata(article.metadata, cleaned_content)) >>

\* DataPreprocessor._process_article: << >> stands for None
ProcessArticle(article) ==
    LET cleaned_content == CleanArticleContent(article.content)
    IN  IF cleaned_content = << >> THEN << >>
        ELSE << Article(article.law_id, article.article_number, cleaned_content,
                        UpdatedMetadata(article.metadata, cleaned_content)) >>

\* the article given to _process_article as the call leaves it: line 469
\* binds metadata to the article's own mapping unless that is None or
\* empty, and line 470 updates it in place
ArticleAfterProcessing(article) ==
    IF CleanArticleContent(article.content) = << >> THEN article
    ELSE IF DOMAIN article.metadata = {} THEN article
    ELSE [article EXCEPT !.metadata =
             UpdatedMetadata(@, CleanArticleContent(article.content))]

RECURSIVE ProcessArticles(_)
ProcessArticles(articles) ==
    IF articles = << >> THEN << >>
    ELSE ProcessArticle(Head(articles)) \o ProcessArticles(Tail(articles))

ProcessLawDocument(law_document) ==
    LawDocument(law_document.law_id, ProcessArticles(law_document.articles))

\* the document given to process_law_document as the call leaves it
LawDocumentAfterProcessing(law_document) ==
    LawDocument(law_document.law_id,
        [i \in DOMAIN law_document.articles |->
            ArticleAfterProcessing(law_document.articles[i])])

\* ------------------------------------------------------- embedding stage
\* text of EmbeddingGenerator._create_law_summary: it always holds the
\* article-count part, so it is never empty
LawSummary == << "w" >>

\* generate_embeddings_for_articles; batch_ok = the model.encode call of
\* generate_embeddings_batch returned (its failure is caught there and turned
\* into an empty batch)
GenerateEmbeddingsForArticles(articles, loaded, batch_ok) ==
    IF articles = << >> THEN << >>
    ELSE IF ~loaded \/ ~batch_ok THEN << >>
    ELSE [i \in DOMAIN articles |->
             EmbeddingResult(articles[i].law_id, articles[i].article_number,
                             articles[i].content)]

\* generate_embedding for the summary; << >> stands for None
GenerateSummaryEmbedding(lid, loaded, summary_ok) ==
    IF ~loaded \/ ~summary_ok THEN << >>
    ELSE << EmbeddingResult(lid, SUMMARY, LawSummary) >>

GenerateEmbeddingsForLawDocument(law_doc, loaded, batch_ok, summary_ok) ==
    GenerateEmbeddingsForArticles(law_doc.articles, loaded, batch_ok)
        \o GenerateSummaryEmbedding(law_doc.law_id, loaded, summary_ok)

\* --------------------------------------------------------- storage stage
\* insert_many of python-arango reports an item it could not persist as an
\* error object in its result list; persisted is the set of positions of
\* the batch that were persisted (none of them when the request itself fails)
NthPersisted(persisted, n) ==
    CHOOSE i \in persisted : Cardinality({j \in persisted : j < i}) = n - 1

\* outcomes of insert_many the model follows: the whole batch is persisted,
\* nothing is (the request failed), or one item of the batch is refused
PersistOutcomes(embedding_results) ==
    {DOMAIN embedding_results, {}}
        \cup {DOMAIN embedding_results \ {i} : i \in DOMAIN embedding_results}

\* insert_documents_batch: the keys it returns; line 272 subscripts every
\* entry of the result list, which raises on an error object, and the except
\* block of lines 276-278 then returns []
InsertedKeys(embedding_results, first_key, persisted) ==
    IF embedding_results = << >> THEN << >>
    ELSE IF persisted # DOMAIN embedding_results THEN << >>
    ELSE [i \in DOMAIN embedding_results |-> first_key + i - 1]

\* insert_documents_batch: the records it adds to the documents collection
InsertedRecords(embedding_results, first_key, persisted) ==
    [n \in 1..Cardinality(persisted) |->
        LET e == embedding_results[NthPersisted(persisted, n)]
        IN  [key |-> first_key + n - 1,
             law_id |-> e.law_id,
             article_number |-> e.article_number,
             content |-> e.content]]

\* ------------------------------------------------------------- outcomes
SuccessOutcome(lid, pdoc, embs, keys) ==
    [law_id |-> lid, success |-> TRUE, error |-> NoError,
     articles_count |-> Len(pdoc.articles),
     embeddings_count |-> Len(embs),
     saved_documents |-> Len(keys)]

\* mutant: the failure outcome leaves out the error message
FailedOutcomeNoError(lid, err) ==
    [law_id |-> lid, success |-> FALSE, error |-> NoError,
     articles_count |-> 0, embeddings_count |-> 0, saved_documents |-> 0]

FailedOutcome(lid, err) ==
    [law_id |-> lid, success |-> FALSE, error |-> err,
     articles_count |-> 0, embeddings_count |-> 0, saved_documents |-> 0]

InitialStats ==
    [total_processed |-> 0, successful_processed |-> 0, failed_processed |-> 0,
     total_articles |-> 0, total_embeddings |-> 0]

StatsAfterSuccess(st, pdoc, embs) ==
    [st EXCEPT !.total_processed = @ + 1,
               !.successful_processed = @ + 1,
               !.total_articles = @ + Len(pdoc.articles),
               !.total_embeddings = @ + Len(embs)]

\* mutant: a failed call is not counted in total_processed
StatsAfterFailureNoTotal(st) ==
    [st EXCEPT !.failed_processed = @ + 1]

StatsAfterFailure(st) ==
    [st EXCEPT !.total_processed = @ + 1,
               !.failed_processed = @ + 1]

RECURSIVE SumField(_, _)
SumField(results, f) ==
    IF results = << >> THEN 0
    ELSE Head(results)[f] + SumField(Tail(results), f)

\* the summary process_all_tax_laws returns
ResultSummary(dl_results, proc_results) ==
    [total_laws |-> Len(dl_results),
     successful_downloads |-> Len(SelectSeq(dl_results, LAMBDA r : r.success)),
     successful_processing |-> Len(proc_results),
     total_articles |-> SumField(proc_results, "articles_count"),
     total_embeddings |-> SumField(proc_results, "embeddings_count")]

NoSummary == ResultSummary(<< >>, << >>)

\* ------------------------------------------------------ hybrid retrieval
\* Raw scores and weights are integers counted in tenths (score 9 is 0.9,
\* weight 4 is 0.4); a normalized or combined score is a fraction [num, den].
Tenth == 10

\* storage keys the two channels can return
Keys == {"a", "b", "c"}

\* BM25 scores of the full-text channel and cosine scores of the vector one
FulltextScores == {50, 100}
VectorScores == {1, 5, 9}

\* weights: the default of line 369, a configured mapping without graph
\* share, and one with a negative share (the code does not check them)
WeightChoices ==
    { [fulltext |-> 4, vector |-> 4, graph |-> 2],
      [fulltext |-> 5, vector |-> 3, graph |-> 0],
      [fulltext |-> 4, vector |-> -3, graph |-> 2] }

Hit(k, sc) == [key |-> k, score |-> sc]

\* result lists a channel query can yield: rows with distinct storage keys,
\* sorted by descending score (SORT BM25(doc) DESC, SORT similarity ASC)
RankedLists(scores) ==
    LET All == UNION {[1..n -> [key : Keys, score : scores]] : n \in 0..Cardinality(Keys)}
    IN  {l \in All :
            /\ \A i, j \in DOMAIN l : l[i].key = l[j].key => i = j
            /\ \A i \in DOMAIN l : i < Len(l) => l[i].score >= l[i + 1].score}

Take(l, n) == SubSeq(l, 1, IF n < Len(l) THEN n ELSE Len(l))

\* mutant: the channel query has no LIMIT
SearchChannelNoLimit(hits, n, ok) == IF ok THEN hits ELSE << >>

\* search_documents_fulltext / search_documents_vector: LIMIT n rows, or the
\* empty list of their except blocks
SearchChannel(hits, n, ok) == IF ok THEN Take(hits, n) ELSE << >>

KeysOf(results) == {results[i].key : i \in DOMAIN results}

\* {r['_key']: r['score'] for r in results}: the last row of a key wins
LastIndex(results, k) ==
    CHOOSE i \in DOMAIN results :
        /\ results[i].key = k
        /\ \A j \in DOMAIN results : results[j].key = k => j <= i

ScoreDict(results) ==
    [k \in KeysOf(results) |-> results[LastIndex(results, k)].score]

MaxOf(S) == CHOOSE x \in S : \A y \in S : y <= x
MinOf(S) == CHOOSE x \in S : \A y \in S : x <= y

\* mutant: normalization measures the distance from the maximum
NormalizeScoresInverted(results) ==
    LET raw == ScoreDict(results)
        vals == {raw[k] : k \in DOMAIN raw}
    IN  IF results # << >> /\ MaxOf(vals) > MinOf(vals)
        THEN [den |-> MaxOf(vals) - MinOf(vals),
              num |-> [k \in DOMAIN raw |-> MaxOf(vals) - raw[k]]]
        ELSE [den |-> Tenth, num |-> raw]

\* mutant: every non-empty channel is normalized
NormalizeScoresAlways(results) ==
    LET raw == ScoreDict(results)
        vals == {raw[k] : k \in DOMAIN raw}
    IN  IF results # << >>
        THEN [den |-> MaxOf(vals) - MinOf(vals),
              num |-> [k \in DOMAIN raw |-> raw[k] - MinOf(vals)]]
        ELSE [den |-> Tenth, num |-> raw]

\* lines 410-422: min-max normalization of one channel, skipped for an empty
\* channel and for a channel whose scores are all equal
NormalizeScores(results) ==
    LET raw == ScoreDict(results)
        vals == {raw[k] : k \in DOMAIN raw}
    IN  IF results # << >> /\ MaxOf(vals) > MinOf(vals)
        THEN [den |-> MaxOf(vals) - MinOf(vals),
              num |-> [k \in DOMAIN raw |-> raw[k] - MinOf(vals)]]
        ELSE [den |-> Tenth, num |-> raw]

\* scores.get(key, 0)
GetScore(norm, k) == IF k \in DOMAIN norm.num THEN norm.num[k] ELSE 0

\* mutant: the graph share is added to every combined score
CombinedScoreWithGraph(k, ft, vec, w) ==
    [num |-> GetScore(ft, k) * w.fulltext * vec.den
               + GetScore(vec, k) * w.vector * ft.den
               + w.graph * ft.den * vec.den,
     den |-> Tenth * ft.den * vec.den]

\* mutant: the vector share is counted twice
CombinedScoreDoubleVector(k, ft, vec, w) ==
    [num |-> GetScore(ft, k) * w.fulltext * vec.den
               + 2 * GetScore(vec, k) * w.vector * ft.den,
     den |-> Tenth * ft.den * vec.den]
\* lines 428-436
CombinedScore(k, ft, vec, w) ==
    [num |-> GetScore(ft, k) * w.fulltext * vec.den
               + GetScore(vec, k) * w.vector * ft.den,
     den |-> Tenth * ft.den * vec.den]

\* line 439: a dict keeps the position of a key's first row and the value of
\* its last row
RECURSIVE FirstSeenKeys(_, _)
FirstSeenKeys(rows, seen) ==
    IF rows = << >> THEN << >>
    ELSE IF Head(rows).key \in seen
         THEN FirstSeenKeys(Tail(rows), seen)
         ELSE << Head(rows).key >>
                  \o FirstSeenKeys(Tail(rows), seen \cup {Head(rows).key})

AllResults(rows) ==
    LET ks == FirstSeenKeys(rows, {})
    IN  [i \in DOMAIN ks |-> rows[LastIndex(rows, ks[i])]]

\* mutant: an unstable sort, a row goes in front of rows of equal score
RECURSIVE InsertDescendingUnstable(_, _, _)
InsertDescendingUnstable(sorted, row, num) ==
    IF sorted = << >> THEN << row >>
    ELSE IF num[Head(sorted).key] > num[row.key]
         THEN << Head(sorted) >> \o InsertDescendingUnstable(Tail(sorted), row, num)
         ELSE << row >> \o sorted

\* sorted(..., reverse=True) is stable: a row goes behind every row already
\* placed whose score is at least its own
RECURSIVE InsertDescending(_, _, _)
InsertDescending(sorted, row, num) ==
    IF sorted = << >> THEN << row >>
    ELSE IF num[Head(sorted).key] >= num[row.key]
         THEN << Head(sorted) >> \o InsertDescending(Tail(sorted), row, num)
         ELSE << row >> \o sorted

RECURSIVE SortDescending(_, _)
SortDescending(rows, num) ==
    IF rows = << >> THEN << >>
    ELSE InsertDescending(SortDescending(SubSeq(rows, 1, Len(rows) - 1), num),
                          rows[Len(rows)], num)

\* _combine_search_results
CombineSearchResults(ft_results, vec_results, w) ==
    LET ft == NormalizeScores(ft_results)
        vec == NormalizeScores(vec_results)
        all_keys == KeysOf(ft_results) \cup KeysOf(vec_results)
        combined_scores == [k \in all_keys |-> CombinedScore(k, ft, vec, w)]
        num == [k \in all_keys |-> combined_scores[k].num]
        sorted_results == SortDescending(AllResults(ft_results \o vec_results), num)
    IN  [i \in DOMAIN sorted_results |->
            [key |-> sorted_results[i].key,
             score |-> sorted_results[i].score,
             combined_score |-> combined_scores[sorted_results[i].key]]]

\* ------------------------------------------------------ split_long_article
\* characters of the contents handed to split_long_article: "bang" is one of
\* the terminators U+FF01 and U+FF1F, "maru" the full stop U+3002
SplitChars == {"w", "sp", "maru", "bang"}

IsTerminator(c) == c \in {"maru", "bang"}

\* index of the first sentence terminator of s, 0 when it has none
RECURSIVE FirstTerminator(_, _)
FirstTerminator(s, i) ==
    IF i > Len(s) THEN 0
    ELSE IF IsTerminator(s[i]) THEN i
    ELSE FirstTerminator(s, i + 1)

\* re.split on the three terminators, line 538: the terminators are dropped
RECURSIVE SplitSentences(_)
SplitSentences(content) ==
    LET i == FirstTerminator(content, 1)
    IN  IF i = 0 THEN << content >>
        ELSE << SubSeq(content, 1, i - 1) >>
             \o SplitSentences(SubSeq(content, i + 1, Len(content)))

\* f"{article.article_number}-{current_index}"
SplitNumber(article_number, current_index) == << article_number, current_index >>

\* the chunk built at lines 552-566 and 576-590
SplitArticle(article, current_content, current_index) ==
    Article(article.law_id,
            SplitNumber(article.article_number, current_index),
            Strip(current_content),
            [split_from |-> article.article_number,
             split_index |-> current_index] @@ article.metadata)

\* mutant: a chunk is closed only when it is more than one character too long
StartsNewChunkLate(test_content, current_content, max_len) ==
    Len(test_content) > max_len + 1 /\ current_content # << >>

\* line 551
StartsNewChunk(test_content, current_content, max_len) ==
    Len(test_content) > max_len /\ current_content # << >>

\* the loop of lines 544-572 from sentence i on
RECURSIVE SplitLoop(_, _, _, _, _)
SplitLoop(article, sentences, max_len, i, acc) ==
    IF i > Len(sentences) THEN acc
    ELSE IF Strip(sentences[i]) = << >>
         THEN SplitLoop(article, sentences, max_len, i + 1, acc)
         ELSE LET test_content == acc.current_content \o sentences[i] \o << "maru" >>
              IN  IF StartsNewChunk(test_content, acc.current_content, max_len)
                  THEN SplitLoop(article, sentences, max_len, i + 1,
                           [split_articles |->
                                Append(acc.split_articles,
                                       SplitArticle(article, acc.current_content,
                                                    acc.current_index)),
                            current_content |-> sentences[i] \o << "maru" >>,
                            current_index |-> acc.current_index + 1])
                  ELSE SplitLoop(article, sentences, max_len, i + 1,
                           [acc EXCEPT !.current_content = test_content])

SplitLongArticle(article, max_len) ==
    IF Len(article.content) <= max_len THEN << article >>
    ELSE LET done == SplitLoop(article, SplitSentences(article.content), max_len, 1,
                               [split_articles |-> << >>,
                                current_content |-> << >>,
                                current_index |-> 1])
         IN  IF done.current_content # << >>
             THEN Append(done.split_articles,
                         SplitArticle(article, done.current_content,
                                      done.current_index))
             ELSE done.split_articles
\* ------------------------------------------------------------ XML extraction
\* an optional text: << >> is None (no such element or attribute, or an
\* element without text), << t >> the text t
NoText == << >>

Some(t) == << t >>

\* what root.find gives for a header element: not found, or an element whose
\* text is None or a string
NoElement == [found |-> FALSE, text |-> NoText]

Element(text) == [found |-> TRUE, text |-> text]

\* a dict without keys
EmptyDict == << >>

\* dict.get(key, default)
Get(dict, key, default) == IF key \in DOMAIN dict THEN dict[key] ELSE default

\* dict.get(key) as an optional value
GetOptional(dict, key) == IF key \in DOMAIN dict THEN Some(dict[key]) ELSE NoText

\* header elements in the order _extract_law_info reads them (lines 134-157)
\* with the law_info key each one fills
HeaderFields ==
    << << "LawTitle", "law_name" >>,
       << "LawTitleKana", "law_name_kana" >>,
       << "LawNum", "law_number" >>,
       << "PromulgateDate", "promulgation_date" >>,
       << "EffectiveDate", "effective_date" >> >>

\* lines 134-157 from header field i on; an element without text makes
\* .text.strip() raise, which ends the try block
RECURSIVE ExtractHeaderFields(_, _, _)
ExtractHeaderFields(root, i, law_info) ==
    IF i > Len(HeaderFields) THEN [law_info |-> law_info, raised |-> FALSE]
    ELSE LET elem == root[HeaderFields[i][1]]
         IN  IF ~elem.found THEN ExtractHeaderFields(root, i + 1, law_info)
             ELSE IF elem.text = NoText
                  THEN [law_info |-> law_info, raised |-> TRUE]
                  ELSE ExtractHeaderFields(root, i + 1,
                           (HeaderFields[i][2] :> Strip(elem.text[1])) @@ law_info)

\* title tokens: the keywords U+7A0E ("zei"), U+6C11 U+6CD5 ("minpou"),
\* U+5211 U+6CD5 ("keihou"), U+5546 U+6CD5 ("shouhou"), U+52B4 U+50CD
\* ("roudou"), any other character ("w") and a space
TitleTokens == {"zei", "minpou", "keihou", "shouhou", "roudou", "w", "sp"}

\* the categories, in romanised form: zeihou, minpou, keihou, shouhou,
\* roudouhou and the default sonota
Categories == {"zeihou", "minpou", "keihou", "shouhou", "roudouhou", "sonota"}

\* keyword in law_name
Contains(law_name, keyword) == \E i \in DOMAIN law_name : law_name[i] = keyword

\* lines 160-171
Category(law_name) ==
    IF Contains(law_name, "zei") THEN "zeihou"
    ELSE IF Contains(law_name, "minpou") THEN "minpou"
    ELSE IF Contains(law_name, "keihou") THEN "keihou"
    ELSE IF Contains(law_name, "shouhou") THEN "shouhou"
    ELSE IF Contains(law_name, "roudou") THEN "roudouhou"
    ELSE "sonota"

\* line 174: the title followed by a fixed text
Description(law_name) == law_name \o << "w" >>

ExtractLawInfo(root) ==
    LET r == ExtractHeaderFields(root, 1, EmptyDict)
        law_name == Get(r.law_info, "law_name", << >>)
    IN  IF r.raised THEN r.law_info
        ELSE ("description" :> Description(law_name))
             @@ ("category" :> Category(law_name)) @@ r.law_info

\* XMLParser._clean_text
CleanText(text) ==
    IF text = << >> THEN << >>
    ELSE ReplaceFullWidthSpace(Strip(CollapseWhitespace(text)))

\* the first of the optional texts that is set and not empty
RECURSIVE FirstText(_)
FirstText(texts) ==
    IF texts = << >> THEN NoText
    ELSE IF Head(texts) # NoText /\ Head(texts)[1] # << >> THEN Head(texts)
    ELSE FirstText(Tail(texts))

\* _extract_article_number and _extract_item_number: the number element's
\* text stripped, else the Num attribute as it is
ExtractNumber(number_text, num_attrib) ==
    IF FirstText(<< number_text >>) # NoText THEN Some(Strip(number_text[1]))
    ELSE num_attrib

\* _extract_article_content and _extract_item_content
ExtractContent(texts) ==
    IF FirstText(texts) = NoText THEN NoText
    ELSE Some(CleanText(FirstText(texts)[1]))

\* "if not x": None or the empty string
Falsy(optional) == optional = NoText \/ optional[1] = << >>

\* _parse_item_element: << >> is None
ParseItemElement(item_elem, law_id) ==
    LET item_number == ExtractNumber(item_elem.ItemNum, item_elem.Num)
        content == ExtractContent(<< item_elem.ItemCaption, item_elem.text >>)
    IN  IF Falsy(item_number) \/ Falsy(content) THEN << >>
        ELSE << Article(law_id, item_number[1], content[1],
                        [xml_element |-> "Item", parsed_at |-> "time"]) >>

\* text of the first Item child of an Article element
ItemChildText(article_elem) ==
    IF article_elem.Item = << >> THEN NoText ELSE article_elem.Item[1].text

\* _parse_article_element: << >> is None
ParseArticleElement(article_elem, law_id) ==
    LET article_number == ExtractNumber(article_elem.ArticleNum, article_elem.Num)
        content == ExtractContent(<< article_elem.ArticleCaption,
                                     ItemChildText(article_elem),
                                     article_elem.text >>)
    IN  IF Falsy(article_number) \/ Falsy(content) THEN << >>
        ELSE << Article(law_id, article_number[1], content[1], ParsedMetadata) >>

\* root.findall('.//law:Item'): the Item elements inside the Article elements
\* and the ones outside them
RECURSIVE NestedItems(_)
NestedItems(article_elements) ==
    IF article_elements = << >> THEN << >>
    ELSE Head(article_elements).Item \o NestedItems(Tail(article_elements))

AllItemElements(root) == NestedItems(root.Article) \o root.Item

\* the loops of lines 199-202 and 207-210
RECURSIVE ParseArticleElements(_, _)
ParseArticleElements(article_elements, law_id) ==
    IF article_elements = << >> THEN << >>
    ELSE ParseArticleElement(Head(article_elements), law_id)
         \o ParseArticleElements(Tail(article_elements), law_id)

RECURSIVE ParseItemElements(_, _)
ParseItemElements(item_elements, law_id) ==
    IF item_elements = << >> THEN << >>
    ELSE ParseItemElement(Head(item_elements), law_id)
         \o ParseItemElements(Tail(item_elements), law_id)

ExtractArticles(root, law_id) ==
    LET articles == ParseArticleElements(root.Article, law_id)
    IN  IF articles = << >>
        THEN ParseItemElements(AllItemElements(root), law_id)
        ELSE articles

\* the LawDocument of lines 85-95
ParsedLawDocument(law_id, law_info, articles) ==
    [law_id |-> law_id,
     law_name |-> Get(law_info, "law_name", << >>),
     law_name_kana |-> GetOptional(law_info, "law_name_kana"),
     law_number |-> GetOptional(law_info, "law_number"),
     promulgation_date |-> GetOptional(law_info, "promulgation_date"),
     effective_date |-> GetOptional(law_info, "effective_date"),
     category |-> GetOptional(law_info, "category"),
     description |-> GetOptional(law_info, "description"),
     articles |-> articles]
\* ----------------------------------------------------- validate_embeddings
\* len(e.content) < 10, line 433
ShortContentLength == 10

\* e.generation_time > 10, line 438 (in seconds)
LongGenerationTime == 10

\* an EmbeddingResult with the fields validate_embeddings reads
TimedEmbedding(content, embedding, generation_time) ==
    [content |-> content, embedding |-> embedding,
     generation_time |-> generation_time]

\* the indexes of the list that satisfy a test, as a list comprehension gives
\* them
IndexesWhere(results, Test(_)) == {i \in DOMAIN results : Test(results[i])}

HasEmptyVector(e) == e.embedding = << >>

HasShortText(e) == Len(e.content) < ShortContentLength

HasLongTime(e) == e.generation_time > LongGenerationTime

Messages(condition, message) == IF condition THEN << message >> ELSE << >>

\* mutant: a short content makes the list invalid
ValidateEmbeddingsShortInvalid(results) ==
    IF results = << >>
    THEN [valid |-> FALSE, errors |-> << "empty list" >>, warnings |-> << >>,
          total_count |-> 0]
    ELSE LET unique_dimensions ==
                 {Len(results[i].embedding) : i \in DOMAIN results}
             inconsistent == Cardinality(unique_dimensions) > 1
             empty_embeddings == IndexesWhere(results, HasEmptyVector)
             short_texts == IndexesWhere(results, HasShortText)
             long_times == IndexesWhere(results, HasLongTime)
         IN  [valid |-> ~inconsistent /\ empty_embeddings = {}
                        /\ short_texts = {},
              errors |-> Messages(inconsistent, "inconsistent dimensions")
                         \o Messages(empty_embeddings # {}, "empty embedding"),
              warnings |-> Messages(short_texts # {}, "short text")
                           \o Messages(long_times # {}, "long generation time"),
              total_count |-> Len(results)]

\* EmbeddingGenerator.validate_embeddings
ValidateEmbeddings(results) ==
    IF results = << >>
    THEN [valid |-> FALSE, errors |-> << "empty list" >>, warnings |-> << >>,
          total_count |-> 0]
    ELSE LET unique_dimensions ==
                 {Len(results[i].embedding) : i \in DOMAIN results}
             inconsistent == Cardinality(unique_dimensions) > 1
             empty_embeddings == IndexesWhere(results, HasEmptyVector)
             short_texts == IndexesWhere(results, HasShortText)
             long_times == IndexesWhere(results, HasLongTime)
         IN  [valid |-> ~inconsistent /\ empty_embeddings = {},
              errors |-> Messages(inconsistent, "inconsistent dimensions")
                         \o Messages(empty_embeddings # {}, "empty embedding"),
              warnings |-> Messages(short_texts # {}, "short text")
                           \o Messages(long_times # {}, "long generation time"),
              total_count |-> Len(results)]
\* ------------------------------------------------------ get_search_weights
\* texts the HYBRID_SEARCH_WEIGHTS setting is given: the JSON object of
\* tests/unit/test_config_loader.py line 191, a JSON object with one key, a
\* JSON list, a number, a boolean word, and a text that is not JSON
JsonObjectText == "{\"fulltext\": 0.5, \"vector\": 0.3, \"graph\": 0.2}"

SingleKeyText == "{\"fulltext\": 1}"

JsonListText == "[1, 2]"

NumberText == "0.5"

BoolText == "true"

NotJsonText == "not json"

SettingTexts ==
    {JsonObjectText, SingleKeyText, JsonListText, NumberText, BoolText,
     NotJsonText}

\* value.lower() in ('true', 'false')
IsBoolWord(text) == text \in {BoolText}

\* float(value) or int(value) does not raise
ParsesAsNumber(text) == text \in {NumberText}

\* ',' in value
HasComma(text) == text \in {JsonObjectText, JsonListText}

\* the default of lines 126 and 131
DefaultWeightsText == "{\"fulltext\": 0.4, \"vector\": 0.4, \"graph\": 0.2}"

\* json.loads(text) does not raise JSONDecodeError
IsJson(text) == text \in (SettingTexts \cup {DefaultWeightsText}) \ {NotJsonText}

\* a Python value: its type, its text when it is a str, and its items (key
\* and weight in tenths) when it is a dict
PyValue(type, text, items) == [type |-> type, text |-> text, items |-> items]

Str(text) == PyValue("str", text, {})

Dict(items) == PyValue("dict", "", items)

\* json.loads(text) for a text that is JSON
JsonValue(text) ==
    CASE text = JsonObjectText ->
             Dict({<< "fulltext", 5 >>, << "vector", 3 >>, << "graph", 2 >>})
      [] text = SingleKeyText -> Dict({<< "fulltext", 10 >>})
      [] text = JsonListText -> PyValue("list", "", {})
      [] text = NumberText -> PyValue("float", "", {})
      [] text = BoolText -> PyValue("bool", "", {})
      [] text = DefaultWeightsText ->
             Dict({<< "fulltext", 4 >>, << "vector", 4 >>, << "graph", 2 >>})

DefaultWeights ==
    Dict({<< "fulltext", 4 >>, << "vector", 4 >>, << "graph", 2 >>})

\* ConfigLoader._convert_type
ConvertType(value) ==
    IF IsBoolWord(value) THEN PyValue("bool", "", {})
    ELSE IF ParsesAsNumber(value) THEN PyValue("float", "", {})
    ELSE IF HasComma(value) THEN PyValue("list", "", {})
    ELSE Str(value)

\* ConfigLoader.get("HYBRID_SEARCH_WEIGHTS", default): the environment
\* variable converted, else the value of the configuration file, else the
\* default
GetSetting(env_value, file_value, default) ==
    IF env_value # << >> THEN ConvertType(env_value[1])
    ELSE IF file_value # << >> THEN Str(file_value[1])
    ELSE Str(default)

\* lines 127-131: json.loads raises TypeError for a value that is not a str
\* and JSONDecodeError for a str that is not JSON
LoadWeights(value) ==
    IF value.type # "str" THEN DefaultWeights
    ELSE IF ~IsJson(value.text) THEN DefaultWeights
    ELSE JsonValue(value.text)
\* ================================================================ state
VARIABLES
    source_body,         \* article contents the source XML files carry
    opc,                 \* position of the scoped use of the orchestrator
    doc_state,           \* position of the current process_single_law call
    law_id,              \* its law_id argument
    xml_file_path,       \* its xml_file_path (a file stem, or NonePath)
    law_document,        \* result of stage 1
    processed_document,  \* result of stage 2
    embeddings,          \* result of stage 3
    saved_keys,          \* result of stage 4
    result,              \* outcome the last process_single_law call returned
    stats,               \* DataProcessor.stats
    documents,           \* the documents collection, in insertion order
    next_key,            \* autoincrement key generator of the collection
    download_results,    \* list built by download_all_tax_laws
    processing_results,  \* list built by process_all_tax_laws
    loop_i,              \* index of process_all_tax_laws in download_results
    result_summary,      \* summary process_all_tax_laws returned
    session_open,        \* EGovDataCollector.session not closed
    model_loaded,        \* EmbeddingGenerator.model is set
    db_connected,        \* DatabaseManager.client not closed
    exc_pending,         \* an exception is propagating out of the scope
    command,             \* args.command of scripts/data_pipeline.py, or "none"
    command_ok,          \* what initialize_database / validation['valid'] gave
    validation_env,      \* what the checks of validate_processing met
    validation_result,   \* mapping validate_processing returned
    exit_status,         \* exit code of the command-line process
    trace,               \* history: stages the current call ran
    calls,               \* history: process_single_law calls made
    invoked,             \* history: law ids process_all_tax_laws passed on
    ok_runs,             \* history: successful runs per document identifier
    fulltext_hits,       \* rows the full-text query matches, best first
    vector_hits,         \* rows the vector query matches, best first
    weights,             \* weights argument of search_documents_hybrid
    limit,               \* limit argument of search_documents_hybrid
    fulltext_results,    \* line 373
    vector_results,      \* line 374
    combined_results,    \* line 377
    final_results,       \* list search_documents_hybrid returns
    hpc,                 \* position of search_documents_hybrid
    requests,            \* history: channel queries search_documents_hybrid made
    text_in,             \* content given to _clean_article_content
    text_out,            \* what it returned
    text_again,          \* what it returned for its own result
    tpc,                 \* position of the caller of the function run alone
    split_input,         \* article argument of split_long_article
    max_length,          \* its max_length argument
    split_articles,      \* list it returned
    parse_root,          \* root element of the file given to parse_law_xml
    parse_info,          \* law_info of parse_law_xml, line 79
    parse_articles,      \* articles of parse_law_xml, line 82
    parse_result,        \* what parse_law_xml returned (<< >> is None)
    embedding_list,      \* embeddings argument of validate_embeddings
    embedding_validation, \* mapping it returned
    environ,             \* HYBRID_SEARCH_WEIGHTS of os.environ (<< >> is unset)
    config_file,         \* HYBRID_SEARCH_WEIGHTS of the configuration file
    weights_str,         \* weights_str of get_search_weights, line 126
    search_weights       \* what get_search_weights returned

pvars == << source_body, opc, doc_state, law_id, xml_file_path, law_document,
            processed_document, embeddings, saved_keys, result, stats,
            documents, next_key, download_results, processing_results,
            loop_i, result_summary, session_open, model_loaded, db_connected,
            exc_pending, command, command_ok, validation_env,
            validation_result, exit_status, trace, calls, invoked, ok_runs >>

fvars == << fulltext_hits, vector_hits, weights, limit, fulltext_results,
            vector_results, combined_results, final_results, hpc, requests >>

splitVars == << split_input, max_length, split_articles >>

parseVars == << parse_root, parse_info, parse_articles, parse_result >>

validateVars == << embedding_list, embedding_validation >>

configVars == << environ, config_file, weights_str, search_weights >>

uvars == << text_in, text_out, text_again, tpc, splitVars, parseVars,
            validateVars, configVars >>

vars == << pvars, fvars, uvars >>

StageEntry(stage, returned, fault) ==
    [stage |-> stage, returned |-> returned, fault |-> fault]

\* commands of scripts/data_pipeline.py ("process" with --law-id and
\* "process_all" without it)
Commands ==
    {"init", "collect", "process", "process_all", "validate", "status", "cleanup"}

\* validate_processing has not run
NoValidationEnv ==
    [reachable |-> TRUE, has_collection |-> TRUE, indexes |-> 0,
     documents_count |-> 0, model |-> TRUE]

NoValidation ==
    [valid |-> TRUE, errors |-> << >>, warnings |-> << >>, checks |-> {}]

\* state after DataProcessor.__init__; cmd is the command the process runs
PipelineStart(cmd) ==
    /\ source_body \in SourceBodies
    /\ command = cmd
    /\ command_ok = TRUE
    /\ validation_env = NoValidationEnv
    /\ validation_result = NoValidation
    /\ exit_status = "running"
    /\ opc = "body"
    /\ doc_state = "none"
    /\ law_id = ""
    /\ xml_file_path = NonePath
    /\ law_document = NoDocument
    /\ processed_document = NoDocument
    /\ embeddings = << >>
    /\ saved_keys = << >>
    /\ result = NoResult
    /\ stats = InitialStats
    /\ documents = << >>
    /\ next_key = 1
    /\ download_results = << >>
    /\ processing_results = << >>
    /\ loop_i = 1
    /\ result_summary = NoSummary
    /\ session_open = TRUE
    /\ model_loaded = TRUE
    /\ db_connected = TRUE
    /\ exc_pending = FALSE
    /\ trace = << >>
    /\ calls = 0
    /\ invoked = << >>
    /\ ok_runs = [s \in LawIds \cup CallerLawIds |-> 0]

PipelineInit == PipelineStart("none")

\* no search is under way
FusionIdle ==
    /\ fulltext_hits = << >>
    /\ vector_hits = << >>
    /\ weights = [fulltext |-> 4, vector |-> 4, graph |-> 2]
    /\ limit = 1
    /\ fulltext_results = << >>
    /\ vector_results = << >>
    /\ combined_results = << >>
    /\ final_results = << >>
    /\ hpc = "idle"
    /\ requests = << >>

\* split_long_article is not being run on its own
SplitIdle ==
    /\ split_input = Article("", 1, << >>, ParsedMetadata)
    /\ max_length = 1
    /\ split_articles = << >>

\* the root element of an XML document: its header elements, its Article
\* elements and the Item elements outside them
Root(well_formed, title, kana, number, promulgated, effective, articles, items) ==
    [well_formed |-> well_formed, LawTitle |-> title, LawTitleKana |-> kana,
     LawNum |-> number, PromulgateDate |-> promulgated,
     EffectiveDate |-> effective, Article |-> articles, Item |-> items]

EmptyRoot ==
    Root(TRUE, NoElement, NoElement, NoElement, NoElement, NoElement, << >>, << >>)

\* parse_law_xml is not being run on its own
ParseIdle ==
    /\ parse_root = EmptyRoot
    /\ parse_info = EmptyDict
    /\ parse_articles = << >>
    /\ parse_result = << >>

\* validate_embeddings is not being run on its own
ValidateIdle ==
    /\ embedding_list = << >>
    /\ embedding_validation = NoValidation

\* get_search_weights is not being run on its own
ConfigIdle ==
    /\ environ = << >>
    /\ config_file = << >>
    /\ weights_str = Str("")
    /\ search_weights = DefaultWeights

\* no function is being run on its own
UnitIdle ==
    /\ text_in = << >>
    /\ text_out = << >>
    /\ text_again = << >>
    /\ tpc = "idle"
    /\ SplitIdle
    /\ ParseIdle
    /\ ValidateIdle
    /\ ConfigIdle

Init == PipelineInit /\ FusionIdle /\ UnitIdle

\* ------------------------------------------------------ process_single_law
callVars == << law_document, processed_document, embeddings, saved_keys >>
storeVars == << documents, next_key >>
bulkVars == << download_results, processing_results, loop_i, result_summary,
               invoked >>
cliVars == << command, command_ok, validation_env, validation_result,
              exit_status >>
scopeVars == << session_open, model_loaded, db_connected, exc_pending, cliVars >>

\* entry of process_single_law(lid, path)
Begin(lid, path) ==
    /\ law_id' = lid
    /\ xml_file_path' = path
    /\ doc_state' = "pending"
    /\ law_document' = NoDocument
    /\ processed_document' = NoDocument
    /\ embeddings' = << >>
    /\ saved_keys' = << >>
    /\ result' = NoResult
    /\ trace' = << >>
    /\ calls' = calls + 1

\* mutant: the except block falls through to the success path
HandleExceptionFallThrough(err) ==
    /\ stats' = StatsAfterFailure(stats)
    /\ result' = FailedOutcome(law_id, err)
    /\ doc_state' = "stored"

\* the except block of process_single_law
HandleException(err) ==
    /\ stats' = StatsAfterFailure(stats)
    /\ result' = FailedOutcome(law_id, err)
    /\ doc_state' = "failed"

\* a caller inside the scope calls process_single_law
CallProcessSingle ==
    /\ opc = "body"
    /\ doc_state = "none"
    /\ calls < MaxCalls
    /\ \E lid \in CallerLawIds, path \in CallerPaths :
           Begin(lid, path)
    /\ UNCHANGED << fvars, uvars, source_body, opc, stats, storeVars, bulkVars, scopeVars,
                    ok_runs >>

\* lines 115-118: no explicit path and the convention file does not exist
ResolveMissing ==
    /\ doc_state = "pending"
    /\ xml_file_path = NonePath
    /\ HandleException("FileNotFoundError")
    /\ UNCHANGED << fvars, uvars, source_body, opc, law_id, xml_file_path, callVars,
                    storeVars, bulkVars, scopeVars, trace, calls, ok_runs >>

\* lines 115-124: path resolved, parse_law_xml returns a document or None
Extract ==
    /\ doc_state = "pending"
    /\ LET stem == IF xml_file_path = NonePath THEN law_id ELSE xml_file_path
       IN  \E parsed \in BOOLEAN :
             /\ xml_file_path' = stem
             /\ trace' = Append(trace, StageEntry("extraction", parsed, ~parsed))
             /\ IF parsed
                THEN /\ law_document' = ParseLawXml(stem, source_body)
                     /\ doc_state' = "extracted"
                     /\ UNCHANGED << stats, result >>
                ELSE /\ HandleException("ValueError")
                     /\ UNCHANGED law_document
    /\ UNCHANGED << fvars, uvars, source_body, opc, law_id, processed_document, embeddings,
                    saved_keys, storeVars, bulkVars, scopeVars, calls, ok_runs >>

\* lines 126-128
Normalize ==
    /\ doc_state = "extracted"
    /\ \E raised \in BOOLEAN :
         /\ trace' = Append(trace, StageEntry("normalization", ~raised, raised))
         /\ IF raised
            THEN /\ HandleException("NormalizationError")
                 /\ UNCHANGED << law_document, processed_document >>
            ELSE /\ processed_document' = ProcessLawDocument(law_document)
                 /\ law_document' = LawDocumentAfterProcessing(law_document)
                 /\ doc_state' = "normalized"
                 /\ UNCHANGED << stats, result >>
    /\ UNCHANGED << fvars, uvars, source_body, opc, law_id, xml_file_path,
                    embeddings, saved_keys, storeVars, bulkVars, scopeVars,
                    calls, ok_runs >>

\* lines 130-132
Embed ==
    /\ doc_state = "normalized"
    /\ \E raised \in BOOLEAN, batch_ok \in BOOLEAN, summary_ok \in BOOLEAN :
         /\ raised => (batch_ok /\ summary_ok)
         /\ (processed_document.articles = << >>) => batch_ok
         /\ trace' = Append(trace,
                StageEntry("embedding", ~raised, raised \/ ~batch_ok))
         /\ IF raised
            THEN /\ HandleException("EmbeddingError")
                 /\ UNCHANGED embeddings
            ELSE /\ embeddings' = GenerateEmbeddingsForLawDocument(
                                      processed_document, model_loaded,
                                      batch_ok, summary_ok)
                 /\ doc_state' = "embedded"
                 /\ UNCHANGED << stats, result >>
    /\ UNCHANGED << fvars, uvars, source_body, opc, law_id, xml_file_path, law_document,
                    processed_document, saved_keys, storeVars, bulkVars,
                    scopeVars, calls, ok_runs >>

\* lines 134-136
Store ==
    /\ doc_state = "embedded"
    /\ \E raised \in BOOLEAN, persisted \in PersistOutcomes(embeddings) :
         /\ raised => persisted = DOMAIN embeddings
         /\ trace' = Append(trace,
                StageEntry("storage", ~raised,
                           raised \/ persisted # DOMAIN embeddings))
         /\ IF raised
            THEN /\ HandleException("StorageError")
                 /\ UNCHANGED << saved_keys, documents, next_key >>
            ELSE /\ saved_keys' = InsertedKeys(embeddings, next_key, persisted)
                 /\ documents' = documents
                        \o InsertedRecords(embeddings, next_key, persisted)
                 /\ next_key' = next_key + Cardinality(persisted)
                 /\ doc_state' = "stored"
                 /\ UNCHANGED << stats, result >>
    /\ UNCHANGED << fvars, uvars, source_body, opc, law_id, xml_file_path, law_document,
                    processed_document, embeddings, bulkVars, scopeVars,
                    calls, ok_runs >>

\* lines 138-171
Finish ==
    /\ doc_state = "stored"
    /\ result' = SuccessOutcome(law_id, processed_document, embeddings, saved_keys)
    /\ stats' = StatsAfterSuccess(stats, processed_document, embeddings)
    /\ doc_state' = "done"
    /\ ok_runs' = [ok_runs EXCEPT ![processed_document.law_id] = @ + 1]
    /\ UNCHANGED << fvars, uvars, source_body, opc, law_id, xml_file_path, callVars,
                    storeVars, bulkVars, scopeVars, trace, calls >>

\* process_single_law has returned: its locals are gone
DropLocals ==
    /\ law_id' = ""
    /\ xml_file_path' = NonePath
    /\ law_document' = NoDocument
    /\ processed_document' = NoDocument
    /\ embeddings' = << >>
    /\ saved_keys' = << >>
    /\ result' = NoResult
    /\ trace' = << >>
    /\ doc_state' = "none"

\* the outcome reaches a caller inside the scope
ReturnToCaller ==
    /\ opc = "body"
    /\ doc_state \in {"done", "failed"}
    /\ DropLocals
    /\ UNCHANGED << fvars, uvars, source_body, opc, stats, storeVars, bulkVars, scopeVars,
                    calls, ok_runs >>

\* ---------------------------------------------------- process_all_tax_laws
singleVars == << law_id, xml_file_path, callVars, result, trace, calls >>

\* a caller inside the scope calls process_all_tax_laws (once per scope, as
\* the command line does)
StartBulk ==
    /\ opc = "body"
    /\ doc_state = "none"
    /\ calls = 0
    /\ download_results = << >>
    /\ opc' = "acquiring"
    /\ UNCHANGED << fvars, uvars, source_body, doc_state, singleVars, stats, storeVars,
                    bulkVars, scopeVars, ok_runs >>

\* collector.py lines 191-196: one download_law_xml of download_all_tax_laws;
\* the list is returned to line 62 after the last one
Download ==
    /\ opc = "acquiring"
    /\ Len(download_results) < Len(tax_law_ids)
    /\ \E success \in BOOLEAN :
         download_results' = Append(download_results,
             DownloadResult(tax_law_ids[Len(download_results) + 1], success))
    /\ opc' = IF Len(download_results) + 1 < Len(tax_law_ids) THEN "acquiring"
              ELSE IF command = "collect" THEN "body" ELSE "processing"
    /\ loop_i' = 1
    /\ UNCHANGED << fvars, uvars, source_body, doc_state, singleVars, stats, storeVars,
                    processing_results, result_summary, invoked, scopeVars,
                    ok_runs >>

\* download_all_tax_laws raises: the except block of lines 95-97 logs the
\* exception and raises it again, so it leaves process_all_tax_laws (in the
\* collect command it leaves the call of data_pipeline.py line 87)
BulkRaise ==
    /\ opc = "acquiring"
    /\ opc' = "raised"
    /\ UNCHANGED << fvars, uvars, source_body, doc_state, singleVars, stats,
                    storeVars, bulkVars, scopeVars, ok_runs >>

\* lines 68-70: the loop reaches a successful download
BulkProcess ==
    /\ opc = "processing"
    /\ doc_state = "none"
    /\ loop_i <= Len(download_results)
    /\ download_results[loop_i].success
    /\ Begin(download_results[loop_i].law_id, download_results[loop_i].file_path)
    /\ invoked' = Append(invoked, download_results[loop_i].law_id)
    /\ UNCHANGED << fvars, uvars, source_body, opc, stats, storeVars, download_results,
                    processing_results, loop_i, result_summary, scopeVars,
                    ok_runs >>

\* lines 72-73: the loop reaches a failed download
BulkSkip ==
    /\ opc = "processing"
    /\ doc_state = "none"
    /\ loop_i <= Len(download_results)
    /\ ~download_results[loop_i].success
    /\ loop_i' = loop_i + 1
    /\ UNCHANGED << fvars, uvars, source_body, opc, doc_state, singleVars, stats, storeVars,
                    download_results, processing_results, result_summary,
                    invoked, scopeVars, ok_runs >>

\* mutant: the loop stops at the first document whose processing failed
BulkCollectStopOnFailure ==
    /\ opc = "processing"
    /\ doc_state \in {"done", "failed"}
    /\ processing_results' = Append(processing_results, result)
    /\ loop_i' = IF result.success THEN loop_i + 1 ELSE Len(download_results) + 1
    /\ DropLocals
    /\ UNCHANGED << fvars, uvars, source_body, opc, calls, stats, storeVars,
                    download_results, result_summary, invoked, scopeVars,
                    ok_runs >>

\* line 71
BulkCollect ==
    /\ opc = "processing"
    /\ doc_state \in {"done", "failed"}
    /\ processing_results' = Append(processing_results, result)
    /\ loop_i' = loop_i + 1
    /\ DropLocals
    /\ UNCHANGED << fvars, uvars, source_body, opc, calls, stats, storeVars,
                    download_results, result_summary, invoked, scopeVars,
                    ok_runs >>

\* lines 75-93
BulkFinish ==
    /\ opc = "processing"
    /\ doc_state = "none"
    /\ loop_i > Len(download_results)
    /\ result_summary' = ResultSummary(download_results, processing_results)
    /\ opc' = "body"
    /\ UNCHANGED << fvars, uvars, source_body, doc_state, singleVars, stats, storeVars,
                    download_results, processing_results, loop_i, invoked,
                    scopeVars, ok_runs >>

\* ------------------------------------------------- scoped use and cleanup
pipelineVars == << source_body, doc_state, singleVars, stats, storeVars,
                   bulkVars, ok_runs >>

resourceVars == << session_open, model_loaded, db_connected >>

\* the call a collect or bulk process command maps to has returned
BulkCommandReturned ==
    /\ opc = "body"
    /\ doc_state = "none"
    /\ command \in {"collect", "process_all"}
    /\ Len(download_results) = Len(tax_law_ids)

\* data_pipeline.py lines 84-96 and 114-125: the with-block ends normally
\* after collect and after the bulk process command, whatever they returned
LeaveScope ==
    /\ BulkCommandReturned
    /\ opc' = "close_collector"
    /\ UNCHANGED << fvars, uvars, pipelineVars, scopeVars >>

\* an exception raised by the call of the command leaves the with-block
RaiseInScope ==
    /\ opc = "raised"
    /\ exc_pending' = TRUE
    /\ opc' = "close_collector"
    /\ UNCHANGED << fvars, uvars, pipelineVars, resourceVars, cliVars >>

\* data_pipeline.py lines 98-113: process_single_law has returned; a failed
\* outcome ends in sys.exit(1), whose SystemExit leaves the with-block
ProcessCommandEnd ==
    /\ opc = "body"
    /\ command = "process"
    /\ doc_state \in {"done", "failed"}
    /\ exc_pending' = ~result.success
    /\ opc' = "close_collector"
    /\ DropLocals
    /\ UNCHANGED << fvars, uvars, source_body, stats, storeVars, bulkVars,
                    resourceVars, cliVars, calls, ok_runs >>

\* data_pipeline.py line 87: the collect command calls download_all_tax_laws
StartCollect ==
    /\ opc = "body"
    /\ command = "collect"
    /\ download_results = << >>
    /\ opc' = "acquiring"
    /\ UNCHANGED << fvars, uvars, pipelineVars, scopeVars >>

\* data_pipeline.py lines 75-82: initialize_database returns a flag (its
\* except block turns every failure into False)
CmdInit ==
    /\ opc = "body"
    /\ command = "init"
    /\ \E ok \in BOOLEAN :
         /\ command_ok' = ok
         /\ exc_pending' = ~ok
    /\ opc' = "close_collector"
    /\ UNCHANGED << fvars, uvars, pipelineVars, resourceVars, command,
                    validation_env, validation_result, exit_status >>

\* data_pipeline.py lines 142-170: get_processing_status returns {} when a
\* collaborator raised, and line 148 then raises KeyError
CmdStatus ==
    /\ opc = "body"
    /\ command = "status"
    /\ \E ok \in BOOLEAN :
         /\ command_ok' = ok
         /\ exc_pending' = ~ok
    /\ opc' = "close_collector"
    /\ UNCHANGED << fvars, uvars, pipelineVars, resourceVars, command,
                    validation_env, validation_result, exit_status >>

\* data_pipeline.py lines 172-182: both cleanup calls return a count
CmdCleanup ==
    /\ opc = "body"
    /\ command = "cleanup"
    /\ opc' = "close_collector"
    /\ UNCHANGED << fvars, uvars, pipelineVars, scopeVars >>

\* what validate_processing can meet: the storage answers or not, the
\* documents collection exists or not, it has so many indexes (the primary
\* one included) and records, embedding_generator.model is set or None
ValidationEnvs ==
    [reachable : BOOLEAN, has_collection : BOOLEAN, indexes : 1..MaxIndexes,
     documents_count : 0..MaxRecords, model : BOOLEAN]

\* database_manager.py lines 506-532: get_database_stats catches every
\* exception and returns {}, so it never raises
GetDatabaseStatsRaises(env) == FALSE

\* has_collection, collection(...).indexes() and collection(...).count()
\* raise when the storage does not answer; the last two also when the
\* collection is missing
CollectionCallRaises(env) == ~env.reachable \/ ~env.has_collection

Check(v, name) == [v EXCEPT !.checks = @ \cup {name}]

Error(v, name) == [v EXCEPT !.errors = Append(@, name), !.valid = FALSE]

Warning(v, name) == [v EXCEPT !.warnings = Append(@, name)]

\* processor.py lines 264-270
CheckConnection(v, env) ==
    IF GetDatabaseStatsRaises(env) THEN Error(v, "database_connection")
    ELSE Check(v, "database_connection")

\* processor.py lines 272-281
CheckCollection(v, env) ==
    IF ~env.reachable THEN Error(v, "documents_collection")
    ELSE IF env.has_collection THEN Check(v, "documents_collection")
    ELSE Error(v, "documents_collection")

\* processor.py lines 283-291
CheckIndexes(v, env) ==
    IF CollectionCallRaises(env) THEN Warning(v, "indexes")
    ELSE IF env.indexes > IndexFloor THEN Check(v, "indexes")
    ELSE Warning(v, "indexes")

\* processor.py lines 293-301
CheckData(v, env) ==
    IF CollectionCallRaises(env) THEN Warning(v, "data_exists")
    ELSE IF env.documents_count > 0 THEN Check(v, "data_exists")
    ELSE Warning(v, "data_exists")

\* processor.py lines 303-312
CheckModel(v, env) ==
    IF env.model THEN Check(v, "embedding_model")
    ELSE Error(v, "embedding_model")

\* validate_processing
ValidateProcessing(env) ==
    CheckModel(CheckData(CheckIndexes(CheckCollection(
        CheckConnection(NoValidation, env), env), env), env), env)

\* data_pipeline.py lines 127-140: the validate command
CmdValidate ==
    /\ opc = "body"
    /\ command = "validate"
    /\ \E env \in ValidationEnvs :
         /\ validation_env' = env
         /\ validation_result' = ValidateProcessing(env)
         /\ command_ok' = ValidateProcessing(env).valid
         /\ exc_pending' = ~ValidateProcessing(env).valid
    /\ opc' = "close_collector"
    /\ UNCHANGED << fvars, uvars, pipelineVars, resourceVars, command,
                    exit_status >>

\* processor.py lines 334-335; a raising close() jumps to the except block
\* of line 345, which ends cleanup_resources
CloseCollector ==
    /\ opc = "close_collector"
    /\ \E raised \in BOOLEAN :
         IF raised
         THEN /\ opc' = "exited"
              /\ UNCHANGED session_open
         ELSE /\ session_open' = FALSE
              /\ opc' = "close_embedding"
    /\ UNCHANGED << fvars, uvars, pipelineVars, model_loaded, db_connected,
                    exc_pending, cliVars >>

\* processor.py lines 337-338; EmbeddingGenerator.close only drops the model
CloseEmbedding ==
    /\ opc = "close_embedding"
    /\ model_loaded' = FALSE
    /\ opc' = "close_database"
    /\ UNCHANGED << fvars, uvars, pipelineVars, session_open, db_connected,
                    exc_pending, cliVars >>

\* processor.py lines 340-346
CloseDatabase ==
    /\ opc = "close_database"
    /\ \E raised \in BOOLEAN :
         IF raised
         THEN UNCHANGED db_connected
         ELSE db_connected' = FALSE
    /\ opc' = "exited"
    /\ UNCHANGED << fvars, uvars, pipelineVars, session_open, model_loaded,
                    exc_pending, cliVars >>

\* data_pipeline.py lines 184-189: __exit__ returns None, so SystemExit or
\* the exception goes on to sys.exit(1); otherwise main returns
ProcessExit ==
    /\ opc = "exited"
    /\ exit_status' = IF exc_pending THEN "nonzero" ELSE "zero"
    /\ opc' = "terminated"
    /\ UNCHANGED << fvars, uvars, pipelineVars, resourceVars, exc_pending,
                    command, command_ok, validation_env, validation_result >>

\* ============================================================ specification
\* the orchestrator used as an object: direct calls and one bulk run
Next ==
    \/ CallProcessSingle
    \/ ResolveMissing
    \/ Extract
    \/ Normalize
    \/ Embed
    \/ Store
    \/ Finish
    \/ ReturnToCaller
    \/ StartBulk
    \/ Download
    \/ BulkRaise
    \/ BulkProcess
    \/ BulkSkip
    \/ BulkCollect
    \/ BulkFinish

Spec == Init /\ [][Next]_vars

\* scripts/data_pipeline.py lines 73-125: the process command calls
\* process_single_law (with --law-id) or process_all_tax_laws, once
ScopedCommand ==
    \/ /\ command = "process"
       /\ calls = 0
       /\ CallProcessSingle
    \/ /\ command = "process_all"
       /\ StartBulk

ScopeNext ==
    \/ ScopedCommand
    \/ ResolveMissing
    \/ Extract
    \/ Normalize
    \/ Embed
    \/ Store
    \/ Finish
    \/ ProcessCommandEnd
    \/ StartCollect
    \/ Download
    \/ BulkRaise
    \/ BulkProcess
    \/ BulkSkip
    \/ BulkCollect
    \/ BulkFinish
    \/ LeaveScope
    \/ RaiseInScope
    \/ CmdInit
    \/ CmdValidate
    \/ CmdStatus
    \/ CmdCleanup
    \/ CloseCollector
    \/ CloseEmbedding
    \/ CloseDatabase
    \/ ProcessExit

\* one run of scripts/data_pipeline.py with one command
ScopeInit == (\E cmd \in Commands : PipelineStart(cmd)) /\ FusionIdle /\ UnitIdle

ScopeSpec == ScopeInit /\ [][ScopeNext]_vars

\* ------------------------------------------------- search_documents_hybrid
MaxLimit == 2

\* the orchestrator is not in use while the searches of FusionSpec run
PipelineIdle ==
    /\ source_body = << >>
    /\ command = "none"
    /\ command_ok = TRUE
    /\ validation_env = NoValidationEnv
    /\ validation_result = NoValidation
    /\ exit_status = "running"
    /\ opc = "body"
    /\ doc_state = "none"
    /\ law_id = ""
    /\ xml_file_path = NonePath
    /\ law_document = NoDocument
    /\ processed_document = NoDocument
    /\ embeddings = << >>
    /\ saved_keys = << >>
    /\ result = NoResult
    /\ stats = InitialStats
    /\ documents = << >>
    /\ next_key = 1
    /\ download_results = << >>
    /\ processing_results = << >>
    /\ loop_i = 1
    /\ result_summary = NoSummary
    /\ session_open = TRUE
    /\ model_loaded = TRUE
    /\ db_connected = TRUE
    /\ exc_pending = FALSE
    /\ trace = << >>
    /\ calls = 0
    /\ invoked = << >>
    /\ ok_runs = [s \in LawIds \cup CallerLawIds |-> 0]

\* one call of a channel search as search_documents_hybrid made it
ChannelRequest(channel, n, ok) == [channel |-> channel, limit |-> n, ok |-> ok]

\* search_documents_hybrid(query, query_embedding, weights, limit) is called
FusionInit ==
    /\ PipelineIdle
    /\ UnitIdle
    /\ requests = << >>
    /\ fulltext_hits \in RankedLists(FulltextScores)
    /\ vector_hits \in RankedLists(VectorScores)
    /\ weights \in WeightChoices
    /\ limit \in 1..MaxLimit
    /\ fulltext_results = << >>
    /\ vector_results = << >>
    /\ combined_results = << >>
    /\ final_results = << >>
    /\ hpc = "called"

\* line 373
SearchFulltext ==
    /\ hpc = "called"
    /\ \E ok \in BOOLEAN :
         /\ fulltext_results' = SearchChannel(fulltext_hits, limit * 2, ok)
         /\ requests' = Append(requests, ChannelRequest("fulltext", limit * 2, ok))
    /\ hpc' = "fulltext_done"
    /\ UNCHANGED << pvars, uvars, fulltext_hits, vector_hits, weights, limit,
                    vector_results, combined_results, final_results >>

\* line 374
SearchVector ==
    /\ hpc = "fulltext_done"
    /\ \E ok \in BOOLEAN :
         /\ vector_results' = SearchChannel(vector_hits, limit * 2, ok)
         /\ requests' = Append(requests, ChannelRequest("vector", limit * 2, ok))
    /\ hpc' = "vector_done"
    /\ UNCHANGED << pvars, uvars, fulltext_hits, vector_hits, weights, limit,
                    fulltext_results, combined_results, final_results >>

\* lines 377-379
Combine ==
    /\ hpc = "vector_done"
    /\ combined_results' =
         CombineSearchResults(fulltext_results, vector_results, weights)
    /\ hpc' = "combined"
    /\ UNCHANGED << pvars, uvars, fulltext_hits, vector_hits, weights, limit,
                    fulltext_results, vector_results, final_results, requests >>

\* lines 382-385
ReturnTop ==
    /\ hpc = "combined"
    /\ final_results' = Take(combined_results, limit)
    /\ hpc' = "returned"
    /\ UNCHANGED << pvars, uvars, fulltext_hits, vector_hits, weights, limit,
                    fulltext_results, vector_results, combined_results, requests >>

FusionNext ==
    \/ SearchFulltext
    \/ SearchVector
    \/ Combine
    \/ ReturnTop

FusionSpec == FusionInit /\ [][FusionNext]_vars

\* --------------------------------------------- _clean_article_content alone
\* contents of at most MaxLen characters
Texts == UNION {[1..n -> Chars] : n \in 0..MaxLen}

\* a caller holds a content text
CleanInit ==
    /\ PipelineIdle
    /\ FusionIdle
    /\ text_in \in Texts
    /\ text_out = << >>
    /\ text_again = << >>
    /\ tpc = "start"
    /\ SplitIdle
    /\ ParseIdle
    /\ ValidateIdle
    /\ ConfigIdle

\* _clean_article_content(text_in)
Clean ==
    /\ tpc = "start"
    /\ text_out' = CleanArticleContent(text_in)
    /\ tpc' = "cleaned"
    /\ UNCHANGED << pvars, fvars, text_in, text_again, splitVars, parseVars,
                    validateVars, configVars >>

\* _clean_article_content applied to its own result
CleanAgain ==
    /\ tpc = "cleaned"
    /\ text_again' = CleanArticleContent(text_out)
    /\ tpc' = "recleaned"
    /\ UNCHANGED << pvars, fvars, text_in, text_out, splitVars, parseVars,
                    validateVars, configVars >>

CleanNext ==
    \/ Clean
    \/ CleanAgain

CleanSpec == CleanInit /\ [][CleanNext]_vars

\* ------------------------------------------------ split_long_article alone
\* no text is being cleaned
CleanIdle ==
    /\ text_in = << >>
    /\ text_out = << >>
    /\ text_again = << >>

\* contents of at most MaxContent characters
SplitTexts == UNION {[1..n -> SplitChars] : n \in 0..MaxContent}

\* a caller holds a fragment and a positive max_length
SplitInit ==
    /\ PipelineIdle
    /\ FusionIdle
    /\ CleanIdle
    /\ \E content \in SplitTexts :
           split_input = Article(AllTaxLawIds[1], 1, content, ParsedMetadata)
    /\ max_length \in 1..MaxContent
    /\ split_articles = << >>
    /\ tpc = "split_called"
    /\ ParseIdle
    /\ ValidateIdle
    /\ ConfigIdle

\* split_long_article(split_input, max_length)
Split ==
    /\ tpc = "split_called"
    /\ split_articles' = SplitLongArticle(split_input, max_length)
    /\ tpc' = "split_returned"
    /\ UNCHANGED << pvars, fvars, text_in, text_out, text_again,
                    split_input, max_length, parseVars, validateVars,
                    configVars >>

SplitNext == Split

SplitSpec == SplitInit /\ [][SplitNext]_vars

\* ----------------------------------------------------- parse_law_xml alone
Titles == UNION {[1..n -> TitleTokens] : n \in 0..MaxTitle}

\* a header element: missing, present without text, or present with a text
OptionalElements == {NoElement, Element(NoText), Element(Some(<< "w" >>))}

TitleElements ==
    {NoElement, Element(NoText)} \cup {Element(Some(t)) : t \in Titles}

\* Item elements: numbered by ItemNum or by the Num attribute, with a caption
\* or a text of their own, without a number, with a blank caption
ItemElement(number, num_attrib, caption, text) ==
    [ItemNum |-> number, Num |-> num_attrib, ItemCaption |-> caption,
     text |-> text]

ItemSamples ==
    {ItemElement(Some(<< "w" >>), NoText, Some(<< "w" >>), NoText),
     ItemElement(NoText, Some(<< "kana" >>), NoText, Some(<< "kana" >>)),
     ItemElement(NoText, NoText, Some(<< "w" >>), NoText),
     ItemElement(Some(<< "w" >>), NoText, Some(<< "sp" >>), NoText)}

\* Article elements: complete, completed by the fallbacks (Num attribute and
\* the text of a child Item), without a number but with a complete child
\* Item, without content, with a blank number
ArticleElement(number, num_attrib, caption, items, text) ==
    [ArticleNum |-> number, Num |-> num_attrib, ArticleCaption |-> caption,
     Item |-> items, text |-> text]

ArticleSamples ==
    {ArticleElement(Some(<< "w" >>), NoText, Some(<< "w" >>), << >>, NoText),
     ArticleElement(NoText, Some(<< "kana" >>), NoText,
         << ItemElement(NoText, NoText, NoText, Some(<< "kana" >>)) >>, NoText),
     ArticleElement(NoText, NoText, Some(<< "w" >>),
         << ItemElement(Some(<< "w" >>), NoText, Some(<< "w" >>), NoText) >>,
         NoText),
     ArticleElement(Some(<< "w" >>), NoText, NoText, << >>, NoText),
     ArticleElement(Some(<< "sp" >>), NoText, Some(<< "w" >>), << >>, NoText)}

ArticleLists == UNION {[1..n -> ArticleSamples] : n \in 0..MaxElements}

ItemLists == UNION {[1..n -> ItemSamples] : n \in 0..MaxElements}

\* a header that holds a tax-law title only
TitleOnly(articles, items) ==
    Root(TRUE, Element(Some(<< "zei" >>)), NoElement, NoElement, NoElement,
         NoElement, articles, items)

\* a body of one complete Article element
OneArticle ==
    << ArticleElement(Some(<< "w" >>), NoText, Some(<< "w" >>), << >>, NoText) >>

\* the stem of the path given to parse_law_xml (_extract_law_id)
ParseStem == AllTaxLawIds[1]

\* parse_law_xml(path) is called on a document with any header over a body
\* of one complete Article element, with any body under a header that holds a
\* title only, or on a file that is not well-formed XML
ParseInit ==
    /\ PipelineIdle
    /\ FusionIdle
    /\ CleanIdle
    /\ SplitIdle
    /\ \/ \E title \in TitleElements,
              kana, number, promulgated, effective \in OptionalElements :
              parse_root = Root(TRUE, title, kana, number, promulgated,
                                effective, OneArticle, << >>)
       \/ \E articles \in ArticleLists, items \in ItemLists :
              parse_root = TitleOnly(articles, items)
       \/ parse_root = [EmptyRoot EXCEPT !.well_formed = FALSE]
    /\ parse_info = EmptyDict
    /\ parse_articles = << >>
    /\ parse_result = << >>
    /\ tpc = "parse_called"
    /\ ValidateIdle
    /\ ConfigIdle

\* lines 72-76; ET.parse raises ParseError on a file that is not well-formed
\* and parse_law_xml returns None (lines 100-102)
ParseTree ==
    /\ tpc = "parse_called"
    /\ tpc' = IF parse_root.well_formed THEN "parse_tree" ELSE "parse_returned"
    /\ UNCHANGED << pvars, fvars, text_in, text_out, text_again, splitVars,
                    parseVars, validateVars, configVars >>

\* line 79
ParseInfo ==
    /\ tpc = "parse_tree"
    /\ parse_info' = ExtractLawInfo(parse_root)
    /\ tpc' = "parse_info"
    /\ UNCHANGED << pvars, fvars, text_in, text_out, text_again, splitVars,
                    validateVars, configVars, parse_root,
                    parse_articles, parse_result >>

\* line 82
ParseArticles ==
    /\ tpc = "parse_info"
    /\ parse_articles' = ExtractArticles(parse_root, ParseStem)
    /\ tpc' = "parse_articles"
    /\ UNCHANGED << pvars, fvars, text_in, text_out, text_again, splitVars,
                    validateVars, configVars, parse_root,
                    parse_info, parse_result >>

\* lines 85-98
ParseReturn ==
    /\ tpc = "parse_articles"
    /\ parse_result' = << ParsedLawDocument(ParseStem, parse_info, parse_articles) >>
    /\ tpc' = "parse_returned"
    /\ UNCHANGED << pvars, fvars, text_in, text_out, text_again, splitVars,
                    validateVars, configVars, parse_root,
                    parse_info, parse_articles >>

ParseNext ==
    \/ ParseTree
    \/ ParseInfo
    \/ ParseArticles
    \/ ParseReturn

ParseSpec == ParseInit /\ [][ParseNext]_vars

\* ----------------------------------------------- validate_embeddings alone
\* contents just below and at the short-text threshold
SampleTexts ==
    {[i \in 1..n |-> "w"] : n \in {ShortContentLength - 1, ShortContentLength}}

\* generation times: the batch value 0, the threshold and just above it
SampleTimes == {0, LongGenerationTime, LongGenerationTime + 1}

Vectors == {[i \in 1..n |-> 0] : n \in 0..MaxDimension}

TimedEmbeddings ==
    {TimedEmbedding(content, embedding, generation_time) :
        content \in SampleTexts, embedding \in Vectors,
        generation_time \in SampleTimes}

EmbeddingLists == UNION {[1..n -> TimedEmbeddings] : n \in 0..MaxEmbeddings}

\* validate_embeddings(embedding_list) is called
ValidateInit ==
    /\ PipelineIdle
    /\ FusionIdle
    /\ CleanIdle
    /\ SplitIdle
    /\ ParseIdle
    /\ embedding_list \in EmbeddingLists
    /\ embedding_validation = NoValidation
    /\ tpc = "validate_called"
    /\ ConfigIdle

ValidateEmbeddingsCall ==
    /\ tpc = "validate_called"
    /\ embedding_validation' = ValidateEmbeddings(embedding_list)
    /\ tpc' = "validate_returned"
    /\ UNCHANGED << pvars, fvars, text_in, text_out, text_again, splitVars,
                    parseVars, configVars, embedding_list >>

ValidateNext == ValidateEmbeddingsCall

ValidateSpec == ValidateInit /\ [][ValidateNext]_vars

\* ------------------------------------------------ get_search_weights alone
\* a setting: unset, or one of the texts
Settings == {<< >>} \cup {<< text >> : text \in SettingTexts}

\* get_search_weights() is called
ConfigInit ==
    /\ PipelineIdle
    /\ FusionIdle
    /\ CleanIdle
    /\ SplitIdle
    /\ ParseIdle
    /\ ValidateIdle
    /\ environ \in Settings
    /\ config_file \in Settings
    /\ weights_str = Str("")
    /\ search_weights = DefaultWeights
    /\ tpc = "weights_called"

\* line 126
ReadSetting ==
    /\ tpc = "weights_called"
    /\ weights_str' = GetSetting(environ, config_file, DefaultWeightsText)
    /\ tpc' = "weights_read"
    /\ UNCHANGED << pvars, fvars, text_in, text_out, text_again, splitVars,
                    parseVars, validateVars, environ, config_file,
                    search_weights >>

\* lines 127-131
ReturnWeights ==
    /\ tpc = "weights_read"
    /\ search_weights' = LoadWeights(weights_str)
    /\ tpc' = "weights_returned"
    /\ UNCHANGED << pvars, fvars, text_in, text_out, text_again, splitVars,
                    parseVars, validateVars, environ, config_file,
                    weights_str >>

ConfigNext ==
    \/ ReadSetting
    \/ ReturnWeights

ConfigSpec == ConfigInit /\ [][ConfigNext]_vars

\* ================================================================= claims
StageOrder == << "extraction", "normalization", "embedding", "storage" >>

InFlight == doc_state \in {"pending", "extracted", "normalized", "embedded", "stored"}

LastStage == trace[Len(trace)]

\* C1: process_single_law never raises: whatever fails (the convention file
\* is missing, extraction yields no document, or normalization, embedding or
\* storage raises), the call ends in the failed state with an outcome that
\* has success = false, the law_id it was given, an error field and
\* articles_count = embeddings_count = saved_documents = 0.
C1_FailureBecomesOutcome ==
    /\ (trace # << >> /\ ~LastStage.returned) => doc_state = "failed"
    /\ doc_state = "failed" =>
         /\ result.success = FALSE
         /\ result.law_id = law_id
         /\ result.error # NoError
         /\ result.articles_count = 0
         /\ result.embeddings_count = 0
         /\ result.saved_documents = 0

\* a storage stage that raised has been turned into a failed outcome
C1_Witness ==
    /\ doc_state = "failed"
    /\ Len(trace) = 4
    /\ result.error = "StorageError"

\* C2 (as claimed): a stage in which something failed (extraction,
\* normalization, the batch embedding call, the batch insert) is the last
\* stage of its call and the call is failed; a call that is done had no
\* failure in any stage.
C2_FailureAbandonsDocument ==
    doc_state \in {"done", "failed"} =>
        \A i \in DOMAIN trace :
            trace[i].fault => (i = Len(trace) /\ doc_state = "failed")

RECURSIVE SuccessfulIds(_)
SuccessfulIds(results) ==
    IF results = << >> THEN << >>
    ELSE (IF Head(results).success THEN << Head(results).law_id >> ELSE << >>)
             \o SuccessfulIds(Tail(results))

BulkFinished == opc = "body" /\ download_results # << >>

\* C4: in process_all_tax_laws no document is processed before the bulk
\* acquisition has returned; the law ids passed to process_single_law are, in
\* order and once each, exactly the successfully acquired ones the loop has
\* reached (never a failed one); when the run ends every successfully
\* acquired document has been processed and has its outcome in
\* processing_results, whatever the outcomes of the documents before it.
C4_BulkOrder ==
    /\ opc = "acquiring" => (doc_state = "none" /\ invoked = << >> /\ calls = 0)
    /\ invoked # << >> => Len(download_results) = Len(tax_law_ids)
    /\ opc = "processing" =>
         invoked = SuccessfulIds(SubSeq(download_results, 1,
                       IF doc_state = "none" THEN loop_i - 1 ELSE loop_i))
    /\ BulkFinished =>
         /\ invoked = SuccessfulIds(download_results)
         /\ Len(processing_results) = Len(invoked)
         /\ \A i \in DOMAIN invoked : processing_results[i].law_id = invoked[i]

\* a bulk run has ended whose first document failed and whose second one
\* was processed successfully
C4_Witness ==
    /\ BulkFinished
    /\ Len(processing_results) >= 2
    /\ ~processing_results[1].success
    /\ processing_results[2].success

\* C5: stats.total_processed counts the calls that have ended and equals
\* successful_processed + failed_processed; the step that ends a call
\* successfully adds its articles_count and embeddings_count to the totals,
\* the step that ends a call in failure leaves successful_processed and both
\* totals unchanged, and no other step changes stats.
C5_StatsTracking ==
    /\ [](/\ stats.total_processed = calls - (IF InFlight THEN 1 ELSE 0)
          /\ stats.total_processed
               = stats.successful_processed + stats.failed_processed)
    /\ [][/\ (doc_state # "done" /\ doc_state' = "done") =>
               /\ stats'.successful_processed = stats.successful_processed + 1
               /\ stats'.failed_processed = stats.failed_processed
               /\ stats'.total_articles
                    = stats.total_articles + result'.articles_count
               /\ stats'.total_embeddings
                    = stats.total_embeddings + result'.embeddings_count
          /\ (doc_state # "failed" /\ doc_state' = "failed") =>
               /\ stats'.successful_processed = stats.successful_processed
               /\ stats'.failed_processed = stats.failed_processed + 1
               /\ stats'.total_articles = stats.total_articles
               /\ stats'.total_embeddings = stats.total_embeddings
          /\ (stats' # stats) =>
               (doc_state' \in {"done", "failed"} /\ doc_state' # doc_state)]_vars

\* one successful call with articles followed by one failed call
C5_Witness ==
    /\ stats.total_processed = 2
    /\ stats.successful_processed = 1
    /\ stats.failed_processed = 1
    /\ stats.total_articles > 0
    /\ doc_state = "failed"

\* fragments of the document with identifier s that reach embedding
FragmentNumbers(s) ==
    LET pdoc == ProcessLawDocument(ParseLawXml(s, source_body))
    IN  {pdoc.articles[i].article_number : i \in DOMAIN pdoc.articles}

RecordsOf(s, a) ==
    {i \in DOMAIN documents :
        documents[i].law_id = s /\ documents[i].article_number = a}

\* C6 (as claimed): storage keys are unique, and after k successful runs of
\* the same document the collection holds k records for every
\* (document-id, fragment-number) pair of that document.
C6_RecordsPerSuccessfulRun ==
    /\ \A i, j \in DOMAIN documents :
         documents[i].key = documents[j].key => i = j
    /\ doc_state # "stored" =>
         \A s \in DOMAIN ok_runs : \A a \in FragmentNumbers(s) :
             Cardinality(RecordsOf(s, a)) = ok_runs[s]

\* C7 (as claimed): however the scoped use of the orchestrator is left, the
\* acquisition session, the embedding model and the storage connection have
\* all been released.
C7_AllResourcesReleased ==
    opc = "exited" => (~session_open /\ ~model_loaded /\ ~db_connected)

\* ------------------------------------------------------- fusion claims
FracEq(x, y) == x.num * y.den = y.num * x.den
FracGeq(x, y) == x.num * y.den >= y.num * x.den
FracGt(x, y) == x.num * y.den > y.num * x.den

RowOf(results, k) == results[CHOOSE i \in DOMAIN results : results[i].key = k]

\* the normalized score the claims speak of: 0 for a key the channel did not
\* return, (score - min) / (max - min) in a channel with two distinct raw
\* scores, the raw score otherwise
ClaimedNormalized(results, k) ==
    IF k \notin KeysOf(results) THEN [num |-> 0, den |-> 1]
    ELSE LET vals == {results[i].score : i \in DOMAIN results}
         IN  IF Cardinality(vals) >= 2
             THEN [num |-> RowOf(results, k).score - MinOf(vals),
                   den |-> MaxOf(vals) - MinOf(vals)]
             ELSE [num |-> RowOf(results, k).score, den |-> Tenth]

\* nft(key) x weights.fulltext + nvec(key) x weights.vector
ClaimedCombined(k) ==
    LET f == ClaimedNormalized(fulltext_results, k)
        v == ClaimedNormalized(vector_results, k)
    IN  [num |-> f.num * weights.fulltext * v.den + v.num * weights.vector * f.den,
         den |-> Tenth * f.den * v.den]

CandidateKeys == KeysOf(fulltext_results) \cup KeysOf(vector_results)

Fused == hpc \in {"combined", "returned"}

\* scenario 4 of the specification: fulltext [a:10, b:5], vector
\* [b:0.9, c:0.1], weights 0.4 / 0.4
Scenario4 ==
    /\ fulltext_results = << Hit("a", 100), Hit("b", 50) >>
    /\ vector_results = << Hit("b", 9), Hit("c", 1) >>
    /\ weights.fulltext = 4
    /\ weights.vector = 4

\* C8: fusion returns one row for every key of the union of the two
\* channels and no other; the row's combined_score is
\* nft(key) x weights.fulltext + nvec(key) x weights.vector with 0 for a key
\* absent from a channel; the graph weight has no influence; in scenario 4
\* the scores are a = 0.4, b = 0.4, c = 0.
C8_CombinedScoreFormula ==
    Fused =>
        /\ KeysOf(combined_results) = CandidateKeys
        /\ \A i \in DOMAIN combined_results :
             FracEq(combined_results[i].combined_score,
                    ClaimedCombined(combined_results[i].key))
        /\ combined_results = CombineSearchResults(fulltext_results,
               vector_results, [weights EXCEPT !.graph = weights.graph + 1])
        /\ Scenario4 =>
             /\ FracEq(RowOf(combined_results, "a").combined_score,
                       [num |-> 4, den |-> Tenth])
             /\ FracEq(RowOf(combined_results, "b").combined_score,
                       [num |-> 4, den |-> Tenth])
             /\ FracEq(RowOf(combined_results, "c").combined_score,
                       [num |-> 0, den |-> Tenth])

\* scenario 4 has been fused
C8_Witness == hpc = "combined" /\ Scenario4 /\ Len(combined_results) = 3

FirstPosition(k) ==
    LET rows == fulltext_results \o vector_results
    IN  CHOOSE i \in DOMAIN rows :
            rows[i].key = k /\ \A j \in DOMAIN rows : rows[j].key = k => i <= j

\* k1 ranks before k2: higher combined score, or the same combined score and
\* seen earlier in [fulltext results, vector results]
RanksBefore(k1, k2) ==
    \/ FracGt(ClaimedCombined(k1), ClaimedCombined(k2))
    \/ /\ FracEq(ClaimedCombined(k1), ClaimedCombined(k2))
       /\ FirstPosition(k1) < FirstPosition(k2)

\* C9: search_documents_hybrid returns min(limit, number of candidate keys)
\* rows, one per storage key at most, each a candidate of the union; they
\* are in ranking order (descending combined score, ties in first-seen
\* order), every candidate left out ranks behind every row returned, and
\* every row carries its combined score.
C9_TopLimitStableOrder ==
    hpc = "returned" =>
        /\ Len(final_results) <= limit
        /\ Len(final_results) =
             (IF limit < Cardinality(CandidateKeys)
              THEN limit ELSE Cardinality(CandidateKeys))
        /\ \A i, j \in DOMAIN final_results :
             final_results[i].key = final_results[j].key => i = j
        /\ KeysOf(final_results) \subseteq CandidateKeys
        /\ \A i, j \in DOMAIN final_results :
             i < j => RanksBefore(final_results[i].key, final_results[j].key)
        /\ \A k \in CandidateKeys \ KeysOf(final_results) :
             \A i \in DOMAIN final_results : RanksBefore(final_results[i].key, k)
        /\ \A i \in DOMAIN final_results :
             FracEq(final_results[i].combined_score,
                    ClaimedCombined(final_results[i].key))

\* scenario 4 with limit 1: a and b tie, a was seen first and is returned
C9_Witness ==
    /\ hpc = "returned"
    /\ Scenario4
    /\ limit = 1
    /\ KeysOf(final_results) = {"a"}

InBothChannels == KeysOf(fulltext_results) \cap KeysOf(vector_results)

RawDominates(A, B) ==
    /\ RowOf(fulltext_results, A).score >= RowOf(fulltext_results, B).score
    /\ RowOf(vector_results, A).score >= RowOf(vector_results, B).score

Monotone ==
    \A A, B \in InBothChannels :
        RawDominates(A, B) =>
            FracGeq(RowOf(combined_results, A).combined_score,
                    RowOf(combined_results, B).combined_score)

\* C10 (as claimed): for all result lists and weights, a candidate whose raw
\* scores are >= another's in both channels has a combined score >= the
\* other's.
C10_MonotoneAnyWeights == Fused => Monotone

\* C10 (amended): the same for all result lists and all weights whose
\* fulltext and vector shares are not negative.
C10_MonotoneNonNegativeWeights ==
    (Fused /\ weights.fulltext >= 0 /\ weights.vector >= 0) => Monotone

\* two candidates of both channels, one strictly ahead in both, fused under
\* non-negative weights
C10_Witness ==
    /\ hpc = "combined"
    /\ weights.fulltext >= 0
    /\ weights.vector >= 0
    /\ \E A, B \in InBothChannels :
         /\ RowOf(fulltext_results, A).score > RowOf(fulltext_results, B).score
         /\ RowOf(vector_results, A).score > RowOf(vector_results, B).score
         /\ FracGt(RowOf(combined_results, A).combined_score,
                   RowOf(combined_results, B).combined_score)

RawScores(results) == {results[i].score : i \in DOMAIN results}

\* what C11 says of one channel: the divisor is never zero; with two distinct
\* raw scores every normalized score is in [0,1], the maximum is 1 and the
\* minimum is 0; otherwise every score is kept as computed
ChannelNormalized(results) ==
    LET norm == NormalizeScores(results)
        vals == RawScores(results)
    IN  /\ norm.den > 0
        /\ DOMAIN norm.num = KeysOf(results)
        /\ Cardinality(vals) >= 2 =>
             \A k \in KeysOf(results) :
                 /\ 0 <= norm.num[k]
                 /\ norm.num[k] <= norm.den
                 /\ RowOf(results, k).score = MaxOf(vals) => norm.num[k] = norm.den
                 /\ RowOf(results, k).score = MinOf(vals) => norm.num[k] = 0
        /\ Cardinality(vals) <= 1 =>
             \A k \in KeysOf(results) :
                 FracEq([num |-> norm.num[k], den |-> norm.den],
                        [num |-> RowOf(results, k).score, den |-> Tenth])

\* C11: normalization never divides by zero: a channel whose rows all have
\* one raw score (a single row included) keeps its scores, a channel with two
\* distinct raw scores is min-max normalized into [0,1] with its maximum at 1
\* and its minimum at 0, and in both cases every candidate gets a combined
\* score.
C11_NormalizationTotal ==
    Fused =>
        /\ ChannelNormalized(fulltext_results)
        /\ ChannelNormalized(vector_results)
        /\ KeysOf(combined_results) = CandidateKeys
        /\ \A i \in DOMAIN combined_results :
             combined_results[i].combined_score.den > 0

\* a full-text channel of two rows with one raw score fused with a vector
\* channel of two distinct raw scores
C11_Witness ==
    /\ hpc = "combined"
    /\ Len(fulltext_results) = 2
    /\ Cardinality(RawScores(fulltext_results)) = 1
    /\ Cardinality(RawScores(vector_results)) = 2
    /\ Len(combined_results) >= 2

ChannelAnswer(hits, request) ==
    IF request.ok THEN Take(hits, 2 * limit) ELSE << >>

\* C12: search_documents_hybrid queries the full-text channel and then the
\* vector channel, once each, asking each for 2 x limit rows; a channel whose
\* query failed contributes the empty list and fusion goes on with the other
\* channel's rows; when both failed the result is empty; the call always ends
\* by returning a list.
C12_ChannelFailureIsolated ==
    /\ Len(requests) <= 2
    /\ \A i \in DOMAIN requests :
         /\ requests[i].channel = << "fulltext", "vector" >>[i]
         /\ requests[i].limit = 2 * limit
    /\ Len(requests) = (IF hpc = "called" THEN 0
                        ELSE IF hpc = "fulltext_done" THEN 1 ELSE 2)
    /\ Len(requests) >= 1 =>
         fulltext_results = ChannelAnswer(fulltext_hits, requests[1])
    /\ Len(requests) = 2 =>
         vector_results = ChannelAnswer(vector_hits, requests[2])
    /\ Fused =>
         /\ KeysOf(combined_results) =
              (IF requests[1].ok THEN KeysOf(Take(fulltext_hits, 2 * limit)) ELSE {})
                \cup (IF requests[2].ok THEN KeysOf(Take(vector_hits, 2 * limit)) ELSE {})
         /\ (~requests[1].ok /\ ~requests[2].ok) => combined_results = << >>
    /\ hpc = "returned" =>
         /\ final_results = Take(combined_results, limit)
         /\ (~requests[1].ok /\ ~requests[2].ok) => final_results = << >>

\* the full-text query failed, the vector query matched more rows than it
\* was asked for, and the call returned rows of the vector channel
C12_Witness ==
    /\ hpc = "returned"
    /\ ~requests[1].ok
    /\ requests[2].ok
    /\ Len(vector_hits) > 2 * limit
    /\ Len(vector_results) = 2 * limit
    /\ final_results # << >>
    /\ KeysOf(final_results) \subseteq KeysOf(vector_results)

\* keys of the records a step added to the documents collection
AddedKeys(before, after) ==
    [i \in 1..(Len(after) - Len(before)) |-> after[Len(before) + i].key]

\* C13 (as claimed): the key list insert_documents_batch returns is exactly
\* the list of keys of the records the call added to the collection, also
\* when some items of the batch could not be persisted.
C13_ReturnedKeysAreAddedKeys ==
    [][(doc_state = "embedded" /\ doc_state' = "stored") =>
           saved_keys' = AddedKeys(documents, documents')]_vars

\* C14 (as claimed): no exception leaves process_all_tax_laws.
C14_BulkNeverRaises == opc # "raised"

\* number of outcomes with success = true
SuccessCount(results) == Len(SelectSeq(results, LAMBDA r : r.success))

\* C15 (as claimed): in the summary of a bulk run successful_processing is
\* the number of outcomes with success = true, total_laws the number of
\* acquisition outcomes, successful_downloads the number of successful
\* acquisitions, and total_articles / total_embeddings the sums of the
\* outcomes' articles_count / embeddings_count.
C15_SummaryFields ==
    BulkFinished =>
        /\ result_summary.successful_processing = SuccessCount(processing_results)
        /\ result_summary.total_laws = Len(download_results)
        /\ result_summary.successful_downloads = SuccessCount(download_results)
        /\ result_summary.total_articles
             = SumField(processing_results, "articles_count")
        /\ result_summary.total_embeddings
             = SumField(processing_results, "embeddings_count")

\* the call the command maps to reported a failure
FailureReported ==
    \/ command \in {"init", "validate", "status"} /\ ~command_ok
    \/ /\ command = "collect"
       /\ \E i \in DOMAIN download_results : ~download_results[i].success
    \/ command \in {"process", "process_all"} /\ stats.failed_processed > 0

\* C16 (as claimed): a command whose call reported a failure exits with a
\* non-zero code; a command exits with zero only when no failure was
\* reported.
C16_ExitCodeReflectsFailure ==
    (exit_status # "running" /\ FailureReported) => exit_status = "nonzero"

InSeq(x, seq) == \E i \in DOMAIN seq : seq[i] = x

\* C17 (as claimed): valid is true exactly when errors is empty; unreachable
\* storage, a missing documents collection and an unset embedding model are
\* errors; too few indexes and an empty collection are warnings only, valid
\* stays true; a check is listed in checks only when its condition holds.
C17_ValidationChecklist ==
    (command = "validate" /\ opc # "body") =>
        LET v == validation_result
            env == validation_env
        IN  /\ v.valid <=> v.errors = << >>
            /\ ~env.reachable => v.errors # << >>
            /\ (env.reachable /\ ~env.has_collection)
                 => InSeq("documents_collection", v.errors)
            /\ ~env.model => InSeq("embedding_model", v.errors)
            /\ (env.reachable /\ env.has_collection /\ env.model) =>
                 /\ v.valid
                 /\ env.indexes <= IndexFloor => InSeq("indexes", v.warnings)
                 /\ env.documents_count = 0 => InSeq("data_exists", v.warnings)
            /\ "database_connection" \in v.checks => env.reachable
            /\ "documents_collection" \in v.checks
                 => (env.reachable /\ env.has_collection)
            /\ "indexes" \in v.checks
                 => (env.reachable /\ env.has_collection
                     /\ env.indexes > IndexFloor)
            /\ "data_exists" \in v.checks
                 => (env.reachable /\ env.has_collection
                     /\ env.documents_count > 0)
            /\ "embedding_model" \in v.checks => env.model

\* C18: cleaning a content that _clean_article_content returned gives the
\* same content again.
C18_CleanIdempotent == tpc = "recleaned" => text_again = text_out

\* a content with a full-width space and a character outside the allow-list
\* whose cleaned form differs from it and is not empty
C18_Witness ==
    /\ tpc = "recleaned"
    /\ InSeq("fsp", text_in)
    /\ InSeq("paren", text_in)
    /\ text_out # << >>
    /\ text_out # text_in

Normalized == doc_state \in {"normalized", "embedded", "stored", "done"}

\* input fragments whose content does not clean to empty, in input order
Survivors(articles) ==
    SelectSeq(articles, LAMBDA a : CleanArticleContent(a.content) # << >>)

\* C19: every fragment of the document process_law_document returned has
\* non-empty content; when it returns, its fragments are the input fragments
\* whose content does not clean to empty, in the same order, with their
\* document id and fragment number and the cleaned content; no embedding
\* result and no stored record of the pipeline has empty content.
C19_NoEmptyFragments ==
    /\ doc_state = "normalized" =>
         LET kept == Survivors(law_document.articles)
             out == processed_document.articles
         IN  /\ processed_document.law_id = law_document.law_id
             /\ Len(out) = Len(kept)
             /\ \A i \in DOMAIN out :
                  /\ out[i].law_id = kept[i].law_id
                  /\ out[i].article_number = kept[i].article_number
                  /\ out[i].content = CleanArticleContent(kept[i].content)
    /\ Normalized =>
         \A i \in DOMAIN processed_document.articles :
             processed_document.articles[i].content # << >>
    /\ \A i \in DOMAIN embeddings : embeddings[i].content # << >>
    /\ \A i \in DOMAIN documents : documents[i].content # << >>

\* a document of two fragments, the first of which cleaned to empty, has been
\* processed and stored
C19_Witness ==
    /\ doc_state = "done"
    /\ Len(law_document.articles) = 2
    /\ Len(processed_document.articles) = 1
    /\ processed_document.articles[1].article_number = 2
    /\ \E i \in DOMAIN documents : documents[i].article_number = 2

\* C20 (as claimed): process_law_document leaves the document it was given,
\* its fragment list and every fragment's content and metadata as they were.
C20_InputNotMutated ==
    [][(doc_state = "extracted" /\ doc_state' = "normalized")
          => law_document' = law_document]_vars

\* ---------------------------------------------------------------- C21
IsSentence(s) == Strip(s) # << >>

\* the sentences a content holds, as split_long_article itself cuts them
SentencesOf(content) == SelectSeq(SplitSentences(content), IsSentence)

SplitReturned == tpc = "split_returned"

RECURSIVE TerminatedSentences(_)
TerminatedSentences(content) ==
    LET i == FirstTerminator(content, 1)
        body == IF i = 0 THEN content ELSE SubSeq(content, 1, i - 1)
        this == IF IsSentence(body)
                THEN << [text |-> Strip(body),
                         end |-> IF i = 0 THEN "none" ELSE content[i]] >>
                ELSE << >>
    IN  IF i = 0 THEN this
        ELSE this \o TerminatedSentences(SubSeq(content, i + 1, Len(content)))

RECURSIVE ConcatContents(_)
ConcatContents(chunks) ==
    IF chunks = << >> THEN << >>
    ELSE Head(chunks).content \o ConcatContents(Tail(chunks))

\* C22: the contents of the returned chunks, concatenated in order, hold the
\* sentences of the original content in their order, none lost, duplicated
\* or changed.
C22_SentencesReproduced ==
    SplitReturned =>
        TerminatedSentences(ConcatContents(split_articles))
            = TerminatedSentences(split_input.content)

\* ---------------------------------------------------------------- C30
\* C30: for a fragment with non-empty content split_long_article returns a
\* non-empty list whose chunks all have non-empty content.
C30_NeverLosesFragment ==
    SplitReturned /\ split_input.content # << >> =>
        /\ split_articles # << >>
        /\ \A i \in DOMAIN split_articles : split_articles[i].content # << >>

\* ---------------------------------------------------------------- C23
ArticlesExtracted ==
    tpc \in {"parse_articles", "parse_returned"} /\ parse_root.well_formed

\* C23: with at least one Article element in the document every fragment
\* comes from an Article element; with none, the fragments are the valid Item
\* elements, one fragment each.
C23_FallbackOnlyWithoutArticles ==
    ArticlesExtracted =>
        /\ parse_root.Article # << >> =>
               \A i \in DOMAIN parse_articles :
                   parse_articles[i].metadata.xml_element = "Article"
        /\ parse_root.Article = << >> =>
               /\ \A i \in DOMAIN parse_articles :
                      parse_articles[i].metadata.xml_element = "Item"
               /\ Len(parse_articles) =
                      Cardinality({k \in DOMAIN parse_root.Item :
                          ParseItemElement(parse_root.Item[k], ParseStem) # << >>})

\* ---------------------------------------------------------------- C24
\* keywords in their priority order, with the category each one selects
KeywordPriority ==
    << << "zei", "zeihou" >>, << "minpou", "minpou" >>,
       << "keihou", "keihou" >>, << "shouhou", "shouhou" >>,
       << "roudou", "roudouhou" >> >>

ClaimedCategory(title) ==
    LET found == {i \in DOMAIN KeywordPriority :
                     Contains(title, KeywordPriority[i][1])}
    IN  IF found = {} THEN "sonota"
        ELSE KeywordPriority[CHOOSE i \in found : \A j \in found : i <= j][2]

\* the text of a header element, None when it is missing or empty
ElementText(elem) ==
    IF elem.found /\ elem.text # NoText THEN Some(Strip(elem.text[1])) ELSE NoText

TitleOf(root) ==
    IF ElementText(root.LawTitle) = NoText THEN << >>
    ELSE ElementText(root.LawTitle)[1]

\* C24: every document parse_law_xml returns has a category of the fixed
\* set, the one of the first keyword of the priority order its title holds
\* (the default without a keyword or a title), and each optional header field
\* is set exactly when its element has a text.
C24_CategoryFromTitle ==
    tpc = "parse_returned" /\ parse_result # << >> =>
        LET doc == parse_result[1]
        IN  /\ doc.category # NoText
            /\ doc.category \in {Some(c) : c \in Categories}
            /\ doc.category = Some(ClaimedCategory(TitleOf(parse_root)))
            /\ doc.law_name_kana = ElementText(parse_root.LawTitleKana)
            /\ doc.law_number = ElementText(parse_root.LawNum)
            /\ doc.promulgation_date = ElementText(parse_root.PromulgateDate)
            /\ doc.effective_date = ElementText(parse_root.EffectiveDate)

\* ---------------------------------------------------------------- C25
ValidateReturned == tpc = "validate_returned"

DimensionsDiffer(results) ==
    \E i, j \in DOMAIN results :
        Len(results[i].embedding) # Len(results[j].embedding)

\* C25: validate_embeddings reports valid = false exactly when the list is
\* empty, the vectors differ in length or some vector is empty; short
\* contents and long generation times add warnings only.
C25_ValidExactlyWhenWellFormed ==
    ValidateReturned =>
        /\ embedding_validation.valid = FALSE <=>
               \/ embedding_list = << >>
               \/ DimensionsDiffer(embedding_list)
               \/ \E i \in DOMAIN embedding_list :
                      embedding_list[i].embedding = << >>
        /\ embedding_validation.warnings # << >> <=>
               \E i \in DOMAIN embedding_list :
                   \/ Len(embedding_list[i].content) < ShortContentLength
                   \/ embedding_list[i].generation_time > LongGenerationTime

\* a list with a short content and a long generation time that is valid
C25_Witness ==
    /\ ValidateReturned
    /\ embedding_validation.valid
    /\ Len(embedding_validation.warnings) = 2
    /\ \E i \in DOMAIN embedding_list :
           Len(embedding_list[i].content) < ShortContentLength
    /\ \E i \in DOMAIN embedding_list :
           embedding_list[i].generation_time > LongGenerationTime

\* ---------------------------------------------------------------- C27
\* the setting in force: the environment variable, else the configuration
\* file
SettingInForce == IF environ # << >> THEN environ ELSE config_file

\* C27: get_search_weights returns the default when the setting is absent
\* or is not valid JSON, and what the setting's JSON text denotes otherwise.
C27_ConfiguredWeightsReturned ==
    tpc = "weights_returned" =>
        IF SettingInForce = << >> \/ ~IsJson(SettingInForce[1])
        THEN search_weights = DefaultWeights
        ELSE search_weights = JsonValue(SettingInForce[1])

\* ---------------------------------------------------------------- C26
\* C26: generate_embeddings_for_law_document returns, for a document of n
\* fragments, n + 1 results: one per fragment in document order with the
\* fragment's document id, number and content, then one summary entry
\* numbered SUMMARY for the same document.
C26_OneEmbeddingPerFragmentPlusSummary ==
    doc_state = "embedded" =>
        LET fragments == processed_document.articles
            n == Len(fragments)
        IN  /\ Len(embeddings) = n + 1
            /\ \A i \in 1..n :
                   /\ i \in DOMAIN embeddings
                   /\ embeddings[i].law_id = fragments[i].law_id
                   /\ embeddings[i].article_number = fragments[i].article_number
                   /\ embeddings[i].content = fragments[i].content
            /\ embeddings # << >> =>
                   /\ embeddings[Len(embeddings)].article_number = SUMMARY
                   /\ embeddings[Len(embeddings)].law_id = processed_document.law_id

\* ---------------------------------------------------------------- C28
\* C28: after a successful process_single_law(law_id, xml_file_path) the
\* outcome names law_id, and so does every result handed to storage and
\* every record stored under the keys the call got back.
C28_RecordsCarryLawId ==
    doc_state = "done" /\ result.success =>
        /\ result.law_id = law_id
        /\ \A i \in DOMAIN embeddings : embeddings[i].law_id = law_id
        /\ \A i \in DOMAIN documents :
               InSeq(documents[i].key, saved_keys) => documents[i].law_id = law_id

\* ---------------------------------------------------------------- C29
FracAdd(x, y) == [num |-> x.num * y.den + y.num * x.den, den |-> x.den * y.den]

NonNegativeWeights == weights.fulltext >= 0 /\ weights.vector >= 0

ChannelCeiling(results, w) ==
    IF results = << >> THEN [num |-> 0, den |-> 1]
    ELSE IF Cardinality(RawScores(results)) >= 2 THEN [num |-> w, den |-> Tenth]
    ELSE [num |-> w * MaxOf(RawScores(results)), den |-> Tenth * Tenth]

====
